---- MODULE Spec2Model ----
(***************************************************************************)
(* Release retrieval of SpotifyPersonalizedReleaseNotifications:           *)
(* AlbumRetrieval (src/src/spotify/album-retrieval.js) as a state machine. *)
(* One run of fetchAllArtistAlbums is followed from its call to its        *)
(* return; every catalog request is a step of its own, so that the order   *)
(* and the timing of the requests can be stated.                           *)
(***************************************************************************)
EXTENDS Integers, Sequences, FiniteSets, TLC

(***************************************************************************)
(* Bounds of the model.                                                    *)
(***************************************************************************)
\* error answers the catalog service gives during a run over a short list, at most
MaxFaults == 2
\* length of the longest discography of the paginated-scan runs
MaxTotal == 60
\* largest retry-after value (seconds) the service sends
MaxRetryAfter == 12
\* length of the longest of the short artist lists
MaxArtists == 3
\* entries in the three lists given to combineArtistSources, in all
MaxEntries == 4

(***************************************************************************)
(* Program constants.                                                      *)
(***************************************************************************)
rateLimitDelay == 100
batchSize == 10
limit == 20
searchLimit == 20
windowDays == 10
defaultRetryAfter == 1
defaultWaitTime == 60

\* the value of totalAvailable before the first page has been answered (null)
null == -1

(***************************************************************************)
(* Strings that the code takes apart are sequences of one-character        *)
(* strings and of whole phrases; a release date is the sequence of the     *)
(* numbers between its dashes ("2025-08-20" is <<2025, 8, 20>>, "2025" is  *)
(* <<2025>>, a missing date is <<>>).                                      *)
(***************************************************************************)
DigitChars == <<"0", "1", "2", "3", "4", "5", "6", "7", "8", "9">>

IsDigit(c) == \E d \in 1..10 : DigitChars[d] = c

DigitValue(c) == (CHOOSE d \in 1..10 : DigitChars[d] = c) - 1

\* String(n) for a natural number: its decimal digits
RECURSIVE NumberToString(_)
NumberToString(n) ==
    IF n < 10 THEN <<DigitChars[n + 1]>>
    ELSE NumberToString(n \div 10) \o <<DigitChars[(n % 10) + 1]>>

\* parseInt of a string of digits
RECURSIVE parseInt(_)
parseInt(s) ==
    IF s = <<>> THEN 0
    ELSE parseInt(SubSeq(s, 1, Len(s) - 1)) * 10 + DigitValue(s[Len(s)])

\* message.match(/\d+/)?.[0] : the first maximal run of digits, <<>> if none
RECURSIVE DigitRun(_)
DigitRun(s) ==
    IF s = <<>> \/ ~IsDigit(Head(s)) THEN <<>>
    ELSE <<Head(s)>> \o DigitRun(Tail(s))

RECURSIVE FirstDigits(_)
FirstDigits(s) ==
    IF s = <<>> THEN <<>>
    ELSE IF IsDigit(Head(s)) THEN DigitRun(s)
    ELSE FirstDigits(Tail(s))

RateLimitedPhrase == "Rate limited. Retry after "

\* message.includes('Rate limited')
IncludesRateLimited(message) ==
    \E k \in 1..Len(message) : message[k] = RateLimitedPhrase

(***************************************************************************)
(* Dates: new Date(year, month, day) is local midnight of a day; instants  *)
(* are [day, ms] with day counted from 1 January of BaseYear.              *)
(***************************************************************************)
BaseYear == 2024

IsLeapYear(y) == (y % 4 = 0 /\ y % 100 # 0) \/ y % 400 = 0

DaysInYear(y) == IF IsLeapYear(y) THEN 366 ELSE 365

DaysInMonth(y, m0) ==
    IF m0 = 1 THEN (IF IsLeapYear(y) THEN 29 ELSE 28)
    ELSE IF m0 \in {3, 5, 8, 10} THEN 30 ELSE 31

RECURSIVE DaysBeforeYear(_)
DaysBeforeYear(y) ==
    IF y <= BaseYear THEN 0 ELSE DaysBeforeYear(y - 1) + DaysInYear(y - 1)

RECURSIVE DaysBeforeMonth(_, _)
DaysBeforeMonth(y, m0) ==
    IF m0 <= 0 THEN 0 ELSE DaysBeforeMonth(y, m0 - 1) + DaysInMonth(y, m0 - 1)

\* new Date(year, month, day), month 0-indexed
NewDate(year, month, day) ==
    [day |-> DaysBeforeYear(year) + DaysBeforeMonth(year, month) + day - 1,
     ms  |-> 0]

InstantLess(a, b) == a.day < b.day \/ (a.day = b.day /\ a.ms < b.ms)

VARIABLES
    artists,                \* the argument of fetchAllArtistAlbums
    catalog,                \* the service: artist id -> discography, newest first
    options,                \* options.useSearchOptimization as passed to new
    useSearchOptimization,  \* this.useSearchOptimization
    now,                    \* new Date() during the run
    pc,                     \* where the run is suspended
    i,                      \* fetchAllArtistAlbums: loop index (start of batch)
    j,                      \* processBatch: loop index within the batch
    attempt,                \* 1: first fetch of artistBatch[j], 2: its retry
    waitTime,               \* processBatch: waitTime of the pending pause
    batchResults,           \* processBatch: batchResults
    allAlbums,              \* fetchAllArtistAlbums: allAlbums
    queryTagNew,            \* fetchRecentAlbumsViaSearch: the query is the tag:new one
    offset,                 \* fetchArtistAlbumsWithEarlyTermination: offset
    totalAvailable,         \* ... totalAvailable
    scanAlbums,             \* ... allAlbums
    request,                \* the catalog request awaiting its answer
    clock,                  \* milliseconds slept since the run started
    log,                    \* history: the catalog requests answered so far
    fetches,                \* history: the calls of fetchArtistAlbums
    faultsLeft,             \* the service: error answers it may still give
    result                  \* what fetchAllArtistAlbums returned

\* ArtistManager (artist-manager.js)
VARIABLES
    followedArtists,        \* combineArtistSources: its three arguments
    likedTrackArtists,
    savedAlbumArtists,
    combinedArtists,        \* this.combinedArtists: the Map, in insertion order
    source,                 \* 0: not called, 1..3: the source being added, 4: returned
    index,                  \* addArtistsFromSource: entries of the source done with
    combined                \* what combineArtistSources returned

mergeVars == <<followedArtists, likedTrackArtists, savedAlbumArtists,
               combinedArtists, source, index, combined>>

\* the release filter (release-filter.js) and its test run
VARIABLES
    testAlbums,             \* the albums given to the filter
    filterOptions,          \* the options argument of filterReleases
    stage,                  \* how far the test run has come (0..3)
    verdicts,               \* what the predicates said of each album
    sorted,                 \* testAlbums after sort(sortByReleaseDate)
    filtered                \* what filterReleases returned

filterVars == <<testAlbums, filterOptions, stage, verdicts, sorted, filtered>>

\* the artist sources (followed-artists.js, liked-artists.js,
\* saved-albums-artists.js): one call of fetchAll or extractAll
VARIABLES
    extractor,              \* the source the call is made on
    library,                \* what the user has saved: the artist ids of each item
    pageOffset,             \* offset
    after,                  \* the cursor of the followed artists, <<>> for null
    totalFetched,
    totalItems,             \* totalTracks, totalAlbums, totalAvailable; <<>> for null
    hasMoreItems,
    artistsMap,             \* the artist ids collected, in the order they came
    pageCalls,              \* the page requests issued so far
    xpc,                    \* where the call stands
    extracted               \* how the call ended

extractVars == <<extractor, library, pageOffset, after, totalFetched, totalItems,
                 hasMoreItems, artistsMap, pageCalls, xpc, extracted>>

\* PlaylistManager (playlist-manager.js): calls of
\* createOrUpdateTodayPlaylist made one after the other on one day
VARIABLES
    userPlaylists,          \* the playlists of the user, as getUserPlaylists lists them
    calendarDay,            \* getFullYear(), getMonth(), getDate() of new Date()
    tracksGiven,            \* the ids of the tracks argument
    newTracks,
    todayPlaylist,          \* playlist: <<>> for null, else <<its id>>
    playlistCreated,
    ppc,                    \* where the call stands
    updated,                \* how the last call ended
    updates,                \* the calls made so far
    userAdded,              \* the playlists the user created between the calls
    playlistFaults          \* how many more requests the service may fail

playlistVars == <<userPlaylists, calendarDay, tracksGiven, newTracks,
                  todayPlaylist, playlistCreated, ppc, updated, updates,
                  userAdded, playlistFaults>>


vars == <<artists, catalog, options, useSearchOptimization, now, pc, i, j,
          attempt, waitTime, batchResults, allAlbums, queryTagNew, offset,
          totalAvailable, scanAlbums, request, clock, log, fetches,
          faultsLeft, result, mergeVars, filterVars, extractVars,
          playlistVars>>

\* the playlist manager is not used
NoPlaylist ==
    /\ userPlaylists = <<>>
    /\ calendarDay = <<>>
    /\ tracksGiven = <<>>
    /\ newTracks = <<>>
    /\ todayPlaylist = <<>>
    /\ playlistCreated = FALSE
    /\ ppc = "unused"
    /\ updated = [type |-> "pending", playlist |-> <<>>,
                  playlistCreated |-> FALSE, tracksAdded |-> 0,
                  tracksSkipped |-> 0]
    /\ updates = 0
    /\ userAdded = 0
    /\ playlistFaults = 0

\* no artist source is read
NoExtract ==
    /\ extractor = "none"
    /\ library = <<>>
    /\ pageOffset = 0
    /\ after = <<>>
    /\ totalFetched = 0
    /\ totalItems = <<>>
    /\ hasMoreItems = TRUE
    /\ artistsMap = <<>>
    /\ pageCalls = <<>>
    /\ xpc = "idle"
    /\ extracted = [type |-> "pending", artists |-> <<>>, error |-> ""]


\* the release filter is not used
NoFilter ==
    /\ testAlbums = <<>>
    /\ filterOptions = <<>>
    /\ stage = 0
    /\ verdicts = <<>>
    /\ sorted = <<>>
    /\ filtered = <<>>

\* combineArtistSources is not called
NoMerge ==
    /\ followedArtists = <<>>
    /\ likedTrackArtists = <<>>
    /\ savedAlbumArtists = <<>>
    /\ combinedArtists = <<>>
    /\ source = 0
    /\ index = 0
    /\ combined = <<>>

(***************************************************************************)
(* isOlderThanDays (album-retrieval.js:23-36)                              *)
(***************************************************************************)
\* the month taken as it is written, not 0-indexed
isOlderThanDaysMonthAsWritten(releaseDateString, daysBack) ==
    IF releaseDateString = <<>> THEN TRUE
    ELSE LET parts == releaseDateString
             year  == parts[1]
             month == IF Len(parts) >= 2 THEN parts[2] ELSE 0
             day   == IF Len(parts) >= 3 THEN parts[3] ELSE 1
             releaseDate == NewDate(year, month, day)
             cutoffDate  == [day |-> now.day - daysBack, ms |-> now.ms]
         IN  InstantLess(releaseDate, cutoffDate)

isOlderThanDays(releaseDateString, daysBack) ==
    IF releaseDateString = <<>> THEN TRUE
    ELSE LET parts == releaseDateString
             year  == parts[1]
             month == IF Len(parts) >= 2 THEN parts[2] - 1 ELSE 0
             day   == IF Len(parts) >= 3 THEN parts[3] ELSE 1
             releaseDate == NewDate(year, month, day)
             cutoffDate  == [day |-> now.day - daysBack, ms |-> now.ms]
         IN  InstantLess(releaseDate, cutoffDate)

(***************************************************************************)
(* The catalog service.  An album as the service lists it has an id, a     *)
(* release date and the ids of its artists.  The artist-albums endpoint    *)
(* answers a page of the artist's discography and its total length; the    *)
(* search endpoint answers unordered matches, among them albums of other   *)
(* artists.                                                                *)
(***************************************************************************)
FreshDate == <<2025, 8, 20>>
OldDate == <<2025, 8, 1>>
Today == [day |-> NewDate(2025, 7, 22).day, ms |-> 43200000]

ServiceAlbum(id, date, artistIds) ==
    [id |-> id, release_date |-> date, artists |-> artistIds]

\* discographies of the runs over many artists: one recent release, a
\* recent and an old release, a release without date, no release
SmallDiscography(a) ==
    CASE a % 4 = 1 -> <<ServiceAlbum(a * 100 + 1, FreshDate, <<a>>)>>
      [] a % 4 = 2 -> <<ServiceAlbum(a * 100 + 1, FreshDate, <<a>>),
                        ServiceAlbum(a * 100 + 2, OldDate, <<a, 0>>)>>
      [] a % 4 = 3 -> <<ServiceAlbum(a * 100 + 1, <<>>, <<a>>)>>
      [] OTHER     -> <<>>

\* a discography of total releases, old from the firstOld-th on; when
\* lastFresh, the last one is recent again (the service broke its ordering)
LargeDiscography(a, total, firstOld, lastFresh) ==
    [k \in 1..total |->
        ServiceAlbum(a * 100 + k,
                     IF k >= firstOld /\ ~(lastFresh /\ k = total)
                     THEN OldDate ELSE FreshDate,
                     <<a>>)]

Min(a, b) == IF a < b THEN a ELSE b

\* body of a 200 answer of getArtistAlbums(id, {limit, offset})
ArtistAlbumsBody(artistId, lim, off) ==
    LET all == catalog[artistId]
    IN  [total |-> Len(all),
         items |-> SubSeq(all, off + 1, Min(off + lim, Len(all)))]

ServerNewDays == 14

\* body.albums.items of a 200 answer of search(query, ['album'], {limit}):
\* an album of another artist, then the artist's albums (those the service
\* tags as new when the query carries tag:new)
SearchItems(artistId, tagNew, lim) ==
    LET all  == catalog[artistId]
        mine == SubSeq(all, 1, Min(lim - 1, Len(all)))
        noise == ServiceAlbum(0, FreshDate, <<0>>)
    IN  <<noise>> \o
        SelectSeq(mine, LAMBDA al :
            ~tagNew \/ ~isOlderThanDays(al.release_date, ServerNewDays))

(***************************************************************************)
(* Answers.  statusCode 0 stands for an error without status code (the     *)
(* transport failed); headers is the value of the retry-after header, the  *)
(* empty string when the header is missing.                                *)
(***************************************************************************)
NoHeader == <<>>

\* the seconds the service asks to wait in a 429 answer; NoRetryAfter: the
\* answer has no retry-after header
NoRetryAfter == -1

RetryAfterSeconds == {NoRetryAfter, 0, 2, MaxRetryAfter}

RetryAfterHeader(seconds) ==
    IF seconds = NoRetryAfter THEN NoHeader ELSE NumberToString(seconds)

StatusCodes == {200, 401, 404, 429, 500, 0}

UpstreamMessage(statusCode) ==
    CASE statusCode = 401 -> <<"Unauthorized">>
      [] statusCode = 404 -> <<"Not Found">>
      [] statusCode = 429 -> <<"Too Many Requests">>
      [] statusCode = 500 -> <<"Internal Server Error">>
      [] OTHER            -> <<"socket hang up">>

\* the error the client library throws for a failed request
ApiError(statusCode, retryAfterHeader) ==
    [statusCode |-> statusCode,
     headers    |-> retryAfterHeader,
     message    |-> UpstreamMessage(statusCode)]

\* new Error(message): no statusCode, no headers
NewError(message) ==
    [statusCode |-> 0, headers |-> NoHeader, message |-> message]

Return(albums) == [type |-> "return", albums |-> albums, error |-> NewError(<<>>)]
Throw(error) == [type |-> "throw", albums |-> <<>>, error |-> error]

(***************************************************************************)
(* fetchArtistAlbumsWithEarlyTermination (album-retrieval.js:124-200)      *)
(***************************************************************************)
\* lines 144-159 (and 77-92): the album object built from a service album
MapAlbum(artistId, al) ==
    [id |-> al.id, release_date |-> al.release_date,
     artist_id |-> artistId, artists |-> al.artists]

MapAlbums(artistId, items) ==
    [k \in 1..Len(items) |-> MapAlbum(artistId, items[k])]

\* lines 162-168
FoundOldAlbum(albums) ==
    \E k \in 1..Len(albums) : isOlderThanDays(albums[k].release_date, windowDays)

\* the header is not read
RetryAfterDefaultOnly(headers) == NumberToString(defaultRetryAfter)

\* line 190: error.headers['retry-after'] || 1, as the template prints it
RetryAfter(headers) ==
    IF headers = NoHeader THEN NumberToString(defaultRetryAfter) ELSE headers

\* line 191
RateLimitedMessage(retryAfter) ==
    <<RateLimitedPhrase>> \o retryAfter \o <<" seconds">>

\* the catch without its 404 branch
ScanCatchWithout404(artistId, error) ==
    IF error.statusCode = 429
    THEN Throw(NewError(RateLimitedMessage(RetryAfter(error.headers))))
    ELSE IF error.statusCode >= 500
    THEN Throw(NewError(<<"Spotify API error for ", ": ">> \o error.message))
    ELSE Throw(error)

\* lines 187-199: the catch of the scan
ScanCatch(artistId, error) ==
    IF error.statusCode = 429
    THEN Throw(NewError(RateLimitedMessage(RetryAfter(error.headers))))
    ELSE IF error.statusCode = 404
    THEN Return(<<>>)
    ELSE IF error.statusCode >= 500
    THEN Throw(NewError(<<"Spotify API error for ", ": ">> \o error.message))
    ELSE Throw(error)

\* the page is pushed after the break on an old album, not before it
ScanPagePushAfterBreak(artistId, body) ==
    LET total  == IF totalAvailable = null THEN body.total ELSE totalAvailable
        albums == MapAlbums(artistId, body.items)
        all    == scanAlbums \o albums
        off    == offset + Len(albums)
    IN  IF FoundOldAlbum(albums)
        THEN [next |-> FALSE, albums |-> scanAlbums, offset |-> offset,
              total |-> total]
        ELSE IF Len(albums) < limit
        THEN [next |-> FALSE, albums |-> all, offset |-> off, total |-> total]
        ELSE [next |-> off < total, albums |-> all, offset |-> off, total |-> total]

\* the total the first response declared is not looked at
ScanPageIgnoresTotal(artistId, body) ==
    LET total  == IF totalAvailable = null THEN body.total ELSE totalAvailable
        albums == MapAlbums(artistId, body.items)
        all    == scanAlbums \o albums
        off    == offset + Len(albums)
    IN  IF FoundOldAlbum(albums)
        THEN [next |-> FALSE, albums |-> all, offset |-> offset, total |-> total]
        ELSE IF Len(albums) < limit
        THEN [next |-> FALSE, albums |-> all, offset |-> off, total |-> total]
        ELSE [next |-> TRUE, albums |-> all, offset |-> off, total |-> total]

\* the scan ends with the first page
ScanPageFirstPageOnly(artistId, body) ==
    LET total  == IF totalAvailable = null THEN body.total ELSE totalAvailable
        albums == MapAlbums(artistId, body.items)
        all    == scanAlbums \o albums
        off    == offset + Len(albums)
    IN  [next |-> FALSE, albums |-> all, offset |-> off, total |-> total]

\* lines 139-183: one page answered with body.  next: the loop goes on with
\* another request, else the scan returns albums.
ScanPage(artistId, body) ==
    LET total  == IF totalAvailable = null THEN body.total ELSE totalAvailable
        albums == MapAlbums(artistId, body.items)
        all    == scanAlbums \o albums
        off    == offset + Len(albums)
    IN  IF FoundOldAlbum(albums)
        THEN [next |-> FALSE, albums |-> all, offset |-> offset, total |-> total]
        ELSE IF Len(albums) < limit
        THEN [next |-> FALSE, albums |-> all, offset |-> off, total |-> total]
        ELSE [next |-> off < total, albums |-> all, offset |-> off, total |-> total]

(***************************************************************************)
(* fetchRecentAlbumsViaSearch (album-retrieval.js:43-117)                  *)
(***************************************************************************)
\* the items of other artists are kept too
SearchAlbumsAnyArtist(artistId, tagNew, items) ==
    MapAlbums(artistId, SelectSeq(items, LAMBDA al :
        tagNew \/ ~isOlderThanDays(al.release_date, windowDays)))

\* the untagged search keeps the old releases too
SearchAlbumsUnfiltered(artistId, tagNew, items) ==
    MapAlbums(artistId, SelectSeq(items, LAMBDA al :
        \E k \in 1..Len(al.artists) : al.artists[k] = artistId))

\* lines 64-95: the albums kept from the items of a search answer
SearchAlbums(artistId, tagNew, items) ==
    LET exact == SelectSeq(items, LAMBDA al :
                    \E k \in 1..Len(al.artists) : al.artists[k] = artistId)
        recent == SelectSeq(exact, LAMBDA al :
                    tagNew \/ ~isOlderThanDays(al.release_date, windowDays))
    IN  MapAlbums(artistId, recent)

\* a failed search goes straight to the scan
SearchCatchAlwaysThrows(tagNew) == "throw"

\* lines 102-108: the catch around a search query
SearchCatch(tagNew) == IF tagNew THEN "continue" ELSE "throw"

(***************************************************************************)
(* processBatch (album-retrieval.js:222-260)                               *)
(***************************************************************************)
\* the wait time is not taken from the message
WaitTimeDefaultOnly(message) == defaultRetryAfter

\* line 243
WaitTime(message) ==
    parseInt(IF FirstDigits(message) # <<>> THEN FirstDigits(message)
             ELSE NumberToString(defaultWaitTime))

\* lines 240-241: the catch that pauses and retries
IsRetried(att, error) == att = 1 /\ IncludesRateLimited(error.message)

(***************************************************************************)
(* The run: fetchAllArtistAlbums (album-retrieval.js:267-335) calling      *)
(* processBatch for one batch after the other.  The run is suspended at    *)
(* its awaits: pc is "run" at the head of the loop over the batches,       *)
(* "artist" at the head of the loop over the artists of a batch, "call"    *)
(* before fetchArtistAlbums is called, "await_search" and "await_albums"   *)
(* while a catalog request is awaited, "pause" during the wait after a     *)
(* rate limit, "batch_delay" during the delay between two batches and      *)
(* "done" when fetchAllArtistAlbums has returned.                          *)
(***************************************************************************)
NoRequest == [endpoint |-> "none", artist |-> 0, offset |-> 0, tagNew |-> FALSE]

AlbumsRequest(artistId, off) ==
    [endpoint |-> "albums", artist |-> artistId, offset |-> off, tagNew |-> FALSE]

SearchRequest(artistId, tagNew) ==
    [endpoint |-> "search", artist |-> artistId, offset |-> 0, tagNew |-> tagNew]

\* line 273
totalBatches == (Len(artists) + batchSize - 1) \div batchSize

\* line 292
batchNumber == (i \div batchSize) + 1

\* the batch is cut from the end of the list
artistBatchFromEnd ==
    SubSeq(artists, Len(artists) - Min(i + batchSize, Len(artists)) + 1,
           Len(artists) - i)

\* line 293
artistBatch == SubSeq(artists, i + 1, Min(i + batchSize, Len(artists)))

\* line 226
artist == artistBatch[j + 1]

Answered(status, seconds) ==
    [call |-> Len(fetches), artist |-> request.artist,
     endpoint |-> request.endpoint, offset |-> request.offset,
     tagNew |-> request.tagNew, at |-> clock, status |-> status,
     retryAfter |-> seconds]

MayAnswer(status, seconds) ==
    /\ status # 200 => faultsLeft > 0
    /\ seconds # NoRetryAfter => status = 429
    /\ faultsLeft' = IF status # 200 THEN faultsLeft - 1 ELSE faultsLeft

\* the albums of the retry are not pushed
FetchReturnedRetryDropped(albums) ==
    /\ batchResults' = IF attempt = 1 THEN batchResults \o albums
                       ELSE batchResults
    /\ j' = j + 1
    /\ attempt' = 1
    /\ pc' = "artist"
    /\ fetches' = [fetches EXCEPT ![Len(fetches)] =
                      [@ EXCEPT !.outcome = "returned", !.albums = albums]]
    /\ UNCHANGED waitTime

\* lines 234-238 and 248-251: fetchArtistAlbums returned albums
FetchReturned(albums) ==
    /\ batchResults' = batchResults \o albums
    /\ j' = j + 1
    /\ attempt' = 1
    /\ pc' = "artist"
    /\ fetches' = [fetches EXCEPT ![Len(fetches)] =
                      [@ EXCEPT !.outcome = "returned", !.albums = albums]]
    /\ UNCHANGED waitTime

\* the pages received before the failure are pushed to the results
FetchThrewKeepsPages(error) ==
    /\ fetches' = [fetches EXCEPT ![Len(fetches)] =
                      [@ EXCEPT !.outcome = "threw", !.error = error]]
    /\ batchResults' = batchResults \o scanAlbums
    /\ IF IsRetried(attempt, error)
       THEN /\ waitTime' = WaitTime(error.message)
            /\ attempt' = 2
            /\ pc' = "pause"
            /\ UNCHANGED j
       ELSE /\ j' = j + 1
            /\ attempt' = 1
            /\ pc' = "artist"
            /\ UNCHANGED waitTime

\* lines 240-256: fetchArtistAlbums threw error
FetchThrew(error) ==
    /\ fetches' = [fetches EXCEPT ![Len(fetches)] =
                      [@ EXCEPT !.outcome = "threw", !.error = error]]
    /\ IF IsRetried(attempt, error)
       THEN /\ waitTime' = WaitTime(error.message)
            /\ attempt' = 2
            /\ pc' = "pause"
            /\ UNCHANGED <<j, batchResults>>
       ELSE /\ j' = j + 1
            /\ attempt' = 1
            /\ pc' = "artist"
            /\ UNCHANGED <<waitTime, batchResults>>

FetchEnded(outcome) ==
    /\ request' = NoRequest
    /\ IF outcome.type = "return"
       THEN FetchReturned(outcome.albums)
       ELSE FetchThrew(outcome.error)

\* lines 126-132: the scan starts with its first request
StartScan ==
    /\ offset' = 0
    /\ totalAvailable' = null
    /\ scanAlbums' = <<>>
    /\ request' = AlbumsRequest(artist, 0)
    /\ pc' = "await_albums"

\* lines 291-299: a batch is cut off the list and processBatch is called
BatchStart ==
    /\ pc = "run"
    /\ i < Len(artists)
    /\ j' = 0
    /\ batchResults' = <<>>
    /\ pc' = "artist"
    /\ UNCHANGED <<faultsLeft, artists, catalog, options,
                   useSearchOptimization, now, i, attempt,
                   waitTime, allAlbums, queryTagNew, offset, totalAvailable,
                   scanAlbums, request, clock, log, fetches, result>>
    /\ UNCHANGED <<mergeVars, filterVars, extractVars, playlistVars>>

\* lines 225-234, i = 0: the first artist of a batch is fetched at once
ArtistStart ==
    /\ pc = "artist"
    /\ j < Len(artistBatch)
    /\ j = 0
    /\ pc' = "call"
    /\ UNCHANGED <<faultsLeft, artists, catalog, options,
                   useSearchOptimization, now, i, j, attempt,
                   waitTime, batchResults, allAlbums, queryTagNew, offset,
                   totalAvailable, scanAlbums, request, clock, log, fetches,
                   result>>
    /\ UNCHANGED <<mergeVars, filterVars, extractVars, playlistVars>>

\* lines 230-232: await this.delay(this.rateLimitDelay)
ArtistDelay ==
    /\ pc = "artist"
    /\ j < Len(artistBatch)
    /\ j > 0
    /\ clock' = clock + rateLimitDelay
    /\ pc' = "call"
    /\ UNCHANGED <<faultsLeft, artists, catalog, options,
                   useSearchOptimization, now, i, j, attempt,
                   waitTime, batchResults, allAlbums, queryTagNew, offset,
                   totalAvailable, scanAlbums, request, log, fetches, result>>
    /\ UNCHANGED <<mergeVars, filterVars, extractVars, playlistVars>>

\* lines 234 and 248, 207-214: fetchArtistAlbums(artist) is called and
\* issues its first request
CallFetch ==
    /\ pc = "call"
    /\ fetches' = Append(fetches,
                     [artist |-> artist, attempt |-> attempt, at |-> clock,
                      outcome |-> "pending", albums |-> <<>>,
                      error |-> NewError(<<>>)])
    /\ IF useSearchOptimization
       THEN /\ queryTagNew' = TRUE
            /\ request' = SearchRequest(artist, TRUE)
            /\ pc' = "await_search"
            /\ UNCHANGED <<offset, totalAvailable, scanAlbums>>
       ELSE /\ StartScan
            /\ UNCHANGED queryTagNew
    /\ UNCHANGED <<faultsLeft, artists, catalog, options,
                   useSearchOptimization, now, i, j, attempt,
                   waitTime, batchResults, allAlbums, clock, log, result>>
    /\ UNCHANGED <<mergeVars, filterVars, extractVars, playlistVars>>

\* lines 132-199: getArtistAlbums is answered
AlbumsAnswer(status, seconds) ==
    /\ pc = "await_albums"
    /\ MayAnswer(status, seconds)
    /\ log' = Append(log, Answered(status, seconds))
    /\ IF status = 200
       THEN LET step == ScanPage(artist,
                            ArtistAlbumsBody(artist, limit, offset))
            IN  /\ offset' = step.offset
                /\ totalAvailable' = step.total
                /\ scanAlbums' = step.albums
                /\ IF step.next
                   THEN /\ request' = AlbumsRequest(artist, step.offset)
                        /\ UNCHANGED <<pc, j, attempt, waitTime, batchResults,
                                       fetches>>
                   ELSE FetchEnded(Return(step.albums))
       ELSE /\ FetchEnded(ScanCatch(artist,
                          ApiError(status, RetryAfterHeader(seconds))))
            /\ UNCHANGED <<offset, totalAvailable, scanAlbums>>
    /\ UNCHANGED <<artists, catalog, options,
                   useSearchOptimization, now, i, allAlbums,
                   queryTagNew, clock, result>>
    /\ UNCHANGED <<mergeVars, filterVars, extractVars, playlistVars>>

\* lines 53-116: search is answered
SearchAnswer(status, seconds) ==
    /\ pc = "await_search"
    /\ MayAnswer(status, seconds)
    /\ log' = Append(log, Answered(status, seconds))
    /\ IF status = 200
       THEN LET found == SearchAlbums(artist, queryTagNew,
                            SearchItems(artist, queryTagNew, searchLimit))
            IN  /\ IF Len(found) > 0 \/ queryTagNew
                   THEN FetchEnded(Return(found))
                   ELSE FetchEnded(Return(<<>>))
                /\ UNCHANGED <<queryTagNew, offset, totalAvailable, scanAlbums>>
       ELSE IF SearchCatch(queryTagNew) = "continue"
       THEN /\ queryTagNew' = FALSE
            /\ request' = SearchRequest(artist, FALSE)
            /\ UNCHANGED <<pc, j, attempt, waitTime, batchResults, fetches,
                           offset, totalAvailable, scanAlbums>>
       ELSE /\ StartScan
            /\ UNCHANGED <<queryTagNew, j, attempt, waitTime, batchResults,
                           fetches>>
    /\ UNCHANGED <<artists, catalog, options,
                   useSearchOptimization, now, i, allAlbums,
                   clock, result>>
    /\ UNCHANGED <<mergeVars, filterVars, extractVars, playlistVars>>

\* line 244: await this.delay(waitTime * 1000), then the retry
RetryPause ==
    /\ pc = "pause"
    /\ clock' = clock + waitTime * 1000
    /\ pc' = "call"
    /\ UNCHANGED <<faultsLeft, artists, catalog, options,
                   useSearchOptimization, now, i, j, attempt,
                   waitTime, batchResults, allAlbums, queryTagNew, offset,
                   totalAvailable, scanAlbums, request, log, fetches, result>>
    /\ UNCHANGED <<mergeVars, filterVars, extractVars, playlistVars>>

\* the delay between batches follows the last batch too
BatchReturnAlwaysDelays ==
    /\ pc = "artist"
    /\ j >= Len(artistBatch)
    /\ allAlbums' = allAlbums \o batchResults
    /\ pc' = "batch_delay"
    /\ UNCHANGED <<faultsLeft, artists, catalog, options,
                   useSearchOptimization, now, i, j,
                   attempt, waitTime, batchResults, queryTagNew, offset,
                   totalAvailable, scanAlbums, request, clock, log, fetches,
                   result>>
    /\ UNCHANGED <<mergeVars, filterVars, extractVars, playlistVars>>

\* lines 259, 299-310: processBatch returns, its albums are appended
BatchReturn ==
    /\ pc = "artist"
    /\ j >= Len(artistBatch)
    /\ allAlbums' = allAlbums \o batchResults
    /\ IF batchNumber < totalBatches
       THEN /\ pc' = "batch_delay"
            /\ UNCHANGED i
       ELSE /\ pc' = "run"
            /\ i' = i + batchSize
    /\ UNCHANGED <<faultsLeft, artists, catalog, options,
                   useSearchOptimization, now, j, attempt,
                   waitTime, batchResults, queryTagNew, offset, totalAvailable,
                   scanAlbums, request, clock, log, fetches, result>>
    /\ UNCHANGED <<mergeVars, filterVars, extractVars, playlistVars>>

\* lines 308-310: await this.delay(this.rateLimitDelay * 2)
BatchDelay ==
    /\ pc = "batch_delay"
    /\ clock' = clock + rateLimitDelay * 2
    /\ i' = i + batchSize
    /\ pc' = "run"
    /\ UNCHANGED <<faultsLeft, artists, catalog, options,
                   useSearchOptimization, now, j, attempt,
                   waitTime, batchResults, allAlbums, queryTagNew, offset,
                   totalAvailable, scanAlbums, request, log, fetches, result>>
    /\ UNCHANGED <<mergeVars, filterVars, extractVars, playlistVars>>

\* lines 313-319: return allAlbums
RunReturn ==
    /\ pc = "run"
    /\ i >= Len(artists)
    /\ result' = [type |-> "return", albums |-> allAlbums]
    /\ pc' = "done"
    /\ UNCHANGED <<faultsLeft, artists, catalog, options,
                   useSearchOptimization, now, i, j, attempt,
                   waitTime, batchResults, allAlbums, queryTagNew, offset,
                   totalAvailable, scanAlbums, request, clock, log, fetches>>
    /\ UNCHANGED <<mergeVars, filterVars, extractVars, playlistVars>>

(***************************************************************************)
(* Initial states: a run over up to MaxArtists artists with short          *)
(* discographies, or over one artist with a discography of several pages.  *)
(***************************************************************************)
\* what new AlbumRetrieval(spotifyApi, options) may be given as
\* options.useSearchOptimization, written as in the source text; undefined
\* when the field or the options argument is missing (line 9: options = {})
undefined == "undefined"

OptionValues == {undefined, "true", "false", "'true'", "1"}

\* every truthy value enables the search
ConstructorTruthy(option) == option \notin {undefined, "false"}

\* line 13: options.useSearchOptimization === true
Constructor(option) == option = "true"

InitRunAt(list, discographies, option, faults, instant) ==
    /\ artists = list
    /\ catalog = discographies
    /\ options = option
    /\ useSearchOptimization = Constructor(option)
    /\ faultsLeft = faults
    /\ now = instant
    /\ pc = "run"
    /\ i = 0
    /\ j = 0
    /\ attempt = 1
    /\ waitTime = 0
    /\ batchResults = <<>>
    /\ allAlbums = <<>>
    /\ queryTagNew = FALSE
    /\ offset = 0
    /\ totalAvailable = null
    /\ scanAlbums = <<>>
    /\ request = NoRequest
    /\ clock = 0
    /\ log = <<>>
    /\ fetches = <<>>
    /\ result = [type |-> "pending", albums |-> <<>>]

InitRun(list, discographies, option, faults) ==
    InitRunAt(list, discographies, option, faults, Today)

\* the lengths of the long discographies, and the positions of their first
\* old release: around the page boundaries, and the 5th of each page
Totals == {t \in 0..MaxTotal : t % limit \in {0, 1, limit - 1}}

Positions == {p \in 1..(MaxTotal + 1) : p % limit \in {0, 1, 2, 5}}

\* a short list of artists, the service failing up to MaxFaults times
InitShort ==
    \E n \in 0..MaxArtists, option \in {undefined, "true"} :
       InitRun([k \in 1..n |-> k], [a \in 1..n |-> SmallDiscography(a)],
               option, MaxFaults)

\* the same with the other values of the option, the service failing at
\* most once
InitOptions ==
    \E n \in 0..MaxArtists, option \in OptionValues \ {undefined, "true"} :
       InitRun([k \in 1..n |-> k], [a \in 1..n |-> SmallDiscography(a)],
               option, 1)

\* a list of more than one batch, the service failing at most once
InitLong ==
    \E option \in {undefined, "true"} :
       InitRun([k \in 1..(batchSize + 1) |-> k],
               [a \in 1..(batchSize + 1) |-> SmallDiscography(a)],
               option, 1)

\* one artist with a discography of several pages
InitPaged ==
    \E total \in Totals, lastFresh \in BOOLEAN :
       \E firstOld \in {p \in Positions : p <= total} \cup {total + 1} :
          InitRun(<<1>>,
                  [a \in {1} |-> LargeDiscography(1, total, firstOld, lastFresh)],
                  undefined, 1)

Init ==
    /\ InitShort \/ InitOptions \/ InitLong \/ InitPaged
    /\ NoMerge /\ NoFilter /\ NoExtract /\ NoPlaylist

Next ==
    \/ BatchStart
    \/ ArtistStart
    \/ ArtistDelay
    \/ CallFetch
    \/ \E status \in StatusCodes, seconds \in RetryAfterSeconds :
          AlbumsAnswer(status, seconds)
    \/ \E status \in StatusCodes, seconds \in RetryAfterSeconds :
          SearchAnswer(status, seconds)
    \/ RetryPause
    \/ BatchReturn
    \/ BatchDelay
    \/ RunReturn

Spec == Init /\ [][Next]_vars

\* process.on('SIGINT') of index.js: the handler says goodbye and calls
\* process.exit(0); the process ends whatever the run is doing
Sigint ==
    /\ pc \notin {"done", "exited"}
    /\ pc' = "exited"
    /\ UNCHANGED <<faultsLeft, artists, catalog, options,
                   useSearchOptimization, now, i, j, attempt,
                   waitTime, batchResults, allAlbums, queryTagNew, offset,
                   totalAvailable, scanAlbums, request, clock, log, fetches,
                   result>>
    /\ UNCHANGED <<mergeVars, filterVars, extractVars, playlistVars>>

\* a run the user may interrupt
NextInterrupt == Next \/ Sigint

SpecInterrupt == Init /\ [][NextInterrupt]_vars

(***************************************************************************)
(* ArtistManager (artist-manager.js).  A value that may be undefined is a  *)
(* sequence: <<>> when undefined (or null), <<v>> when it is v.  An input  *)
(* artist is what the extractors build: the followed ones carry genres,    *)
(* popularity and followers (part_006:72-79), the others id, name and a    *)
(* spotify_url that may be null (liked-artists.js:75-79).                  *)
(***************************************************************************)
\* the ids of the input entries: missing, empty, and two artists
IdValues == {<<>>, <<"">>, <<"a">>, <<"b">>}

\* !v for a string and for a number that may be undefined
FalsyString(v) == v = <<>> \/ v[1] = ""

FalsyNumber(v) == v = <<>> \/ v[1] = 0

SourceNames == <<"followed", "liked_tracks", "saved_albums">>

\* the entry of a source at a position of its list
InputArtist(sourceName, position, id) ==
    IF sourceName = "followed"
    THEN [id |-> id, name |-> <<sourceName, position>>,
          spotify_url |-> <<sourceName, position>>,
          genres |-> IF position % 2 = 1 THEN << <<"rock">> >> ELSE << <<>> >>,
          popularity |-> IF position % 2 = 1 THEN <<50 + position>> ELSE <<0>>,
          followers |-> IF position % 2 = 1 THEN <<1000 * position>> ELSE <<0>>]
    ELSE [id |-> id, name |-> <<sourceName, position>>,
          spotify_url |-> IF position % 2 = 1 THEN <<sourceName, position>>
                          ELSE <<>>,
          genres |-> <<>>, popularity |-> <<>>, followers |-> <<>>]

InputArtists(sourceName, ids) ==
    [k \in 1..Len(ids) |-> InputArtist(sourceName, k, ids[k])]

\* lines 71-80: enhancedArtist
EnhancedArtist(a, sourceName) ==
    [id |-> a.id[1], name |-> a.name, spotify_url |-> a.spotify_url,
     sources |-> <<sourceName>>,
     genres |-> a.genres,
     popularity |-> IF FalsyNumber(a.popularity) THEN <<>> ELSE a.popularity,
     followers |-> IF FalsyNumber(a.followers) THEN <<>> ELSE a.followers]

\* Map.has and the place of the key in the Map
Has(map, id) == \E k \in 1..Len(map) : map[k].id = id

KeyIndex(map, id) == CHOOSE k \in 1..Len(map) : map[k].id = id

Includes(seq, x) == \E k \in 1..Len(seq) : seq[k] = x

\* an entry with an empty id is set as an artist too
ForEachKeepsEmptyId(map, a, sourceName) ==
    IF a.id = <<>> THEN map
    ELSE IF Has(map, a.id[1])
    THEN [map EXCEPT ![KeyIndex(map, a.id[1])] =
             [@ EXCEPT !.sources = IF Includes(@, sourceName) THEN @
                                   ELSE Append(@, sourceName)]]
    ELSE Append(map, EnhancedArtist(a, sourceName))

\* every entry with an id is set as a new artist
ForEachWithoutHas(map, a, sourceName) ==
    IF FalsyString(a.id) THEN map
    ELSE Append(map, EnhancedArtist(a, sourceName))

\* the source is pushed whether or not the artist has it
ForEachWithoutIncludes(map, a, sourceName) ==
    IF FalsyString(a.id) THEN map
    ELSE IF Has(map, a.id[1])
    THEN [map EXCEPT ![KeyIndex(map, a.id[1])] =
             [@ EXCEPT !.sources = Append(@, sourceName)]]
    ELSE Append(map, EnhancedArtist(a, sourceName))

\* a later occurrence sets the artist anew, keeping the sources
ForEachOverwrites(map, a, sourceName) ==
    IF FalsyString(a.id) THEN map
    ELSE IF Has(map, a.id[1])
    THEN [map EXCEPT ![KeyIndex(map, a.id[1])] =
             [EnhancedArtist(a, sourceName) EXCEPT !.sources =
                 IF Includes(map[KeyIndex(map, a.id[1])].sources, sourceName)
                 THEN map[KeyIndex(map, a.id[1])].sources
                 ELSE Append(map[KeyIndex(map, a.id[1])].sources, sourceName)]]
    ELSE Append(map, EnhancedArtist(a, sourceName))

\* lines 56-85: the body of artists.forEach, on this.combinedArtists
ForEach(map, a, sourceName) ==
    IF FalsyString(a.id) THEN map
    ELSE IF Has(map, a.id[1])
    THEN [map EXCEPT ![KeyIndex(map, a.id[1])] =
             [@ EXCEPT !.sources = IF Includes(@, sourceName) THEN @
                                   ELSE Append(@, sourceName)]]
    ELSE Append(map, EnhancedArtist(a, sourceName))

\* the argument of combineArtistSources for a source
SourceList(n) ==
    CASE n = 1 -> followedArtists
      [] n = 2 -> likedTrackArtists
      [] OTHER -> savedAlbumArtists

retrievalVars == <<artists, catalog, options, useSearchOptimization, now, pc,
                   i, j, attempt, waitTime, batchResults, allAlbums,
                   queryTagNew, offset, totalAvailable, scanAlbums, request,
                   clock, log, fetches, faultsLeft, result>>

\* lines 18-26: the Map is cleared and the followed artists come first
CombineArtistSources ==
    /\ source = 0
    /\ combinedArtists' = <<>>
    /\ source' = 1
    /\ index' = 0
    /\ UNCHANGED <<followedArtists, likedTrackArtists, savedAlbumArtists,
                   combined, retrievalVars, filterVars,
                   extractVars, playlistVars>>

\* lines 56-85: one turn of artists.forEach
AddArtist ==
    /\ source \in 1..3
    /\ index < Len(SourceList(source))
    /\ combinedArtists' = ForEach(combinedArtists,
                                  SourceList(source)[index + 1],
                                  SourceNames[source])
    /\ index' = index + 1
    /\ UNCHANGED <<followedArtists, likedTrackArtists, savedAlbumArtists,
                   source, combined, retrievalVars, filterVars,
                   extractVars, playlistVars>>

\* lines 48-51 and 87, 26-32: addArtistsFromSource returns (at once for an
\* empty list) and is called for the next source
NextSource ==
    /\ source \in 1..2
    /\ index >= Len(SourceList(source))
    /\ source' = source + 1
    /\ index' = 0
    /\ UNCHANGED <<followedArtists, likedTrackArtists, savedAlbumArtists,
                   combinedArtists, combined, retrievalVars, filterVars,
                   extractVars, playlistVars>>

\* lines 34-39: Array.from(this.combinedArtists.values()) is returned
CombineReturn ==
    /\ source = 3
    /\ index >= Len(SourceList(source))
    /\ combined' = combinedArtists
    /\ source' = 4
    /\ UNCHANGED <<followedArtists, likedTrackArtists, savedAlbumArtists,
                   combinedArtists, index, retrievalVars, filterVars,
                   extractVars, playlistVars>>

\* what an earlier call of combineArtistSources left in the Map
EarlierArtists ==
    <<[id |-> "a", name |-> <<"earlier", 1>>, spotify_url |-> <<>>,
       sources |-> <<"saved_albums">>, genres |-> <<>>, popularity |-> <<>>,
       followers |-> <<>>]>>

IdLists == UNION {[1..n -> IdValues] : n \in 0..MaxEntries}

\* a manager, new or used before, is given three lists of MaxEntries
\* entries in all; no album is retrieved
InitMerge ==
    /\ InitRun(<<>>, <<>>, undefined, 0)
    /\ NoFilter
    /\ NoExtract
    /\ NoPlaylist
    /\ \E ids \in IdLists :
          \E c1 \in 0..Len(ids) :
             \E c2 \in c1..Len(ids) :
                /\ followedArtists = InputArtists("followed", SubSeq(ids, 1, c1))
                /\ likedTrackArtists =
                      InputArtists("liked_tracks", SubSeq(ids, c1 + 1, c2))
                /\ savedAlbumArtists =
                      InputArtists("saved_albums", SubSeq(ids, c2 + 1, Len(ids)))
    /\ combinedArtists \in {<<>>, EarlierArtists}
    /\ source = 0
    /\ index = 0
    /\ combined = <<>>

NextMerge ==
    \/ CombineArtistSources
    \/ AddArtist
    \/ NextSource
    \/ CombineReturn

SpecMerge == InitMerge /\ [][NextMerge]_vars

(***************************************************************************)
(* The release filter (release-filter.js).  Here a string is the sequence  *)
(* of its characters; a property that may be missing is <<>> when missing  *)
(* and <<value>> when present; a number that may be NaN is <<>> when NaN   *)
(* and <<n>> otherwise.  An album has the properties the filter reads.     *)
(***************************************************************************)
UpperCase == <<"A", "B", "C", "D", "E", "F", "G", "H", "I", "J", "K", "L", "M",
               "N", "O", "P", "Q", "R", "S", "T", "U", "V", "W", "X", "Y", "Z">>

LowerCase == <<"a", "b", "c", "d", "e", "f", "g", "h", "i", "j", "k", "l", "m",
               "n", "o", "p", "q", "r", "s", "t", "u", "v", "w", "x", "y", "z">>

\* String.prototype.toLowerCase
toLowerCase(s) ==
    [k \in 1..Len(s) |->
        IF \E u \in 1..26 : UpperCase[u] = s[k]
        THEN LowerCase[CHOOSE u \in 1..26 : UpperCase[u] = s[k]]
        ELSE s[k]]

\* String.prototype.includes
includes(s, searchString) ==
    \E k \in 0..(Len(s) - Len(searchString)) :
        SubSeq(s, k + 1, k + Len(searchString)) = searchString

\* the name is looked at as it is written
isAlbumOrEPCaseSensitive(album) ==
    IF album.album_type = "album" THEN TRUE
    ELSE IF album.album_type = "single"
         THEN album.total_tracks >= 4 \/ includes(album.name, <<"e", "p">>)
         ELSE FALSE

\* the name is not looked at
isAlbumOrEPByTracksOnly(album) ==
    IF album.album_type = "album" THEN TRUE
    ELSE IF album.album_type = "single"
         THEN album.total_tracks >= 4
         ELSE FALSE

isAlbumOrEP(album) ==
    IF album.album_type = "album" THEN TRUE
    ELSE IF album.album_type = "single"
         THEN album.total_tracks >= 4
                \/ includes(toLowerCase(album.name), <<"e", "p">>)
         ELSE FALSE

\* String.prototype.split('-') : the pieces between the dashes
RECURSIVE split(_)
split(s) ==
    IF \A k \in 1..Len(s) : s[k] # "-" THEN <<s>>
    ELSE LET dash == CHOOSE k \in 1..Len(s) :
                         s[k] = "-" /\ \A h \in 1..(k - 1) : s[h] # "-"
         IN  <<SubSeq(s, 1, dash - 1)>> \o split(SubSeq(s, dash + 1, Len(s)))

\* parseInt(part, 10) of a piece without sign or blanks: the number its
\* leading digits write, NaN when it does not start with a digit
parseIntPrefix(part) ==
    IF DigitRun(part) = <<>> THEN <<>> ELSE <<parseInt(DigitRun(part))>>

\* what parseReleaseDate returns: null, an Invalid Date, or a Date
Null == [kind |-> "null", day |-> 0, ms |-> 0]

InvalidDate == [kind |-> "invalid", day |-> 0, ms |-> 0]

ValidDate(instant) == [kind |-> "date", day |-> instant.day, ms |-> instant.ms]

\* !releaseDateString : undefined and '' are falsy
FalsyDateString(releaseDateString) ==
    releaseDateString = <<>> \/ releaseDateString[1] = <<>>

\* the month is taken as written, not 0-indexed
parseReleaseDateMonthAsWritten(releaseDateString) ==
    IF FalsyDateString(releaseDateString) THEN Null
    ELSE LET parts == split(releaseDateString[1])
             year  == parseIntPrefix(parts[1])
             month == IF Len(parts) >= 2 /\ parts[2] # <<>>
                      THEN parseIntPrefix(parts[2])
                      ELSE <<0>>
             day   == IF Len(parts) >= 3 /\ parts[3] # <<>>
                      THEN parseIntPrefix(parts[3])
                      ELSE <<1>>
         IN  IF year = <<>> \/ month = <<>> \/ day = <<>> THEN InvalidDate
             ELSE ValidDate(NewDate(year[1], month[1], day[1]))

parseReleaseDate(releaseDateString) ==
    IF FalsyDateString(releaseDateString) THEN Null
    ELSE LET parts == split(releaseDateString[1])
             year  == parseIntPrefix(parts[1])
             month == IF Len(parts) >= 2 /\ parts[2] # <<>>
                      THEN IF parseIntPrefix(parts[2]) = <<>> THEN <<>>
                           ELSE <<parseIntPrefix(parts[2])[1] - 1>>
                      ELSE <<0>>
             day   == IF Len(parts) >= 3 /\ parts[3] # <<>>
                      THEN parseIntPrefix(parts[3])
                      ELSE <<1>>
         IN  IF year = <<>> \/ month = <<>> \/ day = <<>> THEN InvalidDate
             ELSE ValidDate(NewDate(year[1], month[1], day[1]))

\* only a null date is not recent
isRecentReleaseUnlessNull(album, daysBack) ==
    LET releaseDate == parseReleaseDate(album.release_date)
        cutoffDate  == [day |-> now.day - daysBack, ms |-> now.ms]
    IN  IF releaseDate.kind = "null" THEN FALSE
        ELSE \/ releaseDate.kind = "invalid"
             \/ ~InstantLess(releaseDate, cutoffDate)

\* releaseDate >= cutoffDate is false when releaseDate is an Invalid Date
isRecentRelease(album, daysBack) ==
    LET releaseDate == parseReleaseDate(album.release_date)
        cutoffDate  == [day |-> now.day - daysBack, ms |-> now.ms]
    IN  IF releaseDate.kind = "null" THEN FALSE
        ELSE /\ releaseDate.kind = "date"
             /\ ~InstantLess(releaseDate, cutoffDate)

\* oldest first
sortByReleaseDateAscending(a, b) ==
    LET dateA == parseReleaseDate(a.release_date)
        dateB == parseReleaseDate(b.release_date)
    IN  IF dateA.kind = "null" /\ dateB.kind = "null" THEN <<0>>
        ELSE IF dateA.kind = "null" THEN <<1>>
        ELSE IF dateB.kind = "null" THEN <<-1>>
        ELSE IF dateA.kind = "invalid" \/ dateB.kind = "invalid" THEN <<>>
        ELSE IF InstantLess(dateB, dateA) THEN <<1>>
        ELSE IF InstantLess(dateA, dateB) THEN <<-1>>
        ELSE <<0>>

\* the sign of what the comparator returns, NaN when a getTime() is NaN
sortByReleaseDate(a, b) ==
    LET dateA == parseReleaseDate(a.release_date)
        dateB == parseReleaseDate(b.release_date)
    IN  IF dateA.kind = "null" /\ dateB.kind = "null" THEN <<0>>
        ELSE IF dateA.kind = "null" THEN <<1>>
        ELSE IF dateB.kind = "null" THEN <<-1>>
        ELSE IF dateA.kind = "invalid" \/ dateB.kind = "invalid" THEN <<>>
        ELSE IF InstantLess(dateB, dateA) THEN <<-1>>
        ELSE IF InstantLess(dateA, dateB) THEN <<1>>
        ELSE <<0>>

\* Array.prototype.sort reads a comparator's NaN as +0
SortCompare(a, b) ==
    LET v == sortByReleaseDate(a, b) IN IF v = <<>> THEN 0 ELSE v[1]

\* what the comparator says of each two elements of the list
Comparisons(list) ==
    [x \in 1..Len(list) |->
        [y \in 1..Len(list) |-> SortCompare(list[x], list[y])]]

\* the comparator is consistent on the elements of the list: it is
\* antisymmetric and both "before" and "equal" are transitive
ConsistentComparator(c) ==
    \A x \in DOMAIN c, y \in DOMAIN c, z \in DOMAIN c :
        /\ c[x][y] = -c[y][x]
        /\ c[x][y] < 0 /\ c[y][z] < 0 => c[x][z] < 0
        /\ c[x][y] = 0 /\ c[y][z] = 0 => c[x][z] = 0

Orders(n) ==
    {p \in [1..n -> 1..n] : \A x \in 1..n, y \in 1..n : p[x] = p[y] => x = y}

\* what list.sort(sortByReleaseDate) may leave: with a consistent comparator
\* the stable sorted order, otherwise an order the implementation chooses
Sort(list) ==
    LET c == Comparisons(list)
        n == Len(list)
        stable == {q \in Orders(n) :
                     \A x \in 1..n, y \in 1..n :
                         x < y => \/ c[q[x]][q[y]] < 0
                                  \/ c[q[x]][q[y]] = 0 /\ q[x] < q[y]}
    IN  {[k \in 1..n |-> list[p[k]]] :
            p \in IF ConsistentComparator(c) THEN stable ELSE Orders(n)}

defaultDaysBack == 10

\* const { daysBack = 10 } = options
DaysBack(opts) == IF opts = <<>> THEN defaultDaysBack ELSE opts[1]

Range(list) == {list[k] : k \in 1..Len(list)}

Keep(list, kept) ==
    LET Test(album) == album \in kept IN SelectSeq(list, Test)

\* the albums and EPs are not looked for
filterReleasesOfAnyType(albums, opts) ==
    LET recent == Keep(albums,
                       {a \in Range(albums) :
                           isRecentRelease(a, DaysBack(opts))})
    IN  Sort(recent)

\* the lists filterReleases may return
filterReleases(albums, opts) ==
    LET albumsOrEPs == Keep(albums, {a \in Range(albums) : isAlbumOrEP(a)})
        recent == Keep(albumsOrEPs,
                       {a \in Range(albumsOrEPs) :
                           isRecentRelease(a, DaysBack(opts))})
    IN  Sort(recent)

(***************************************************************************)
(* A run of the filter: the predicates are applied to each album of a      *)
(* list, the list is sorted with the comparator, and the list is filtered. *)
(***************************************************************************)
Release(id, type, tracks, name, date) ==
    [id |-> id, album_type |-> type, total_tracks |-> tracks, name |-> name,
     release_date |-> date]

NameFoo == <<"F", "o", "o">>

NameFooEP == <<"F", "o", "o", " ", "E", "P">>

NameDeep == <<"D", "e", "e", "p">>

TodayString == <<"2", "0", "2", "5", "-", "0", "8", "-", "2", "2">>

\* the albums a list is drawn from.  Their dates: of the day, a week old,
\* ten and eleven days old, of the month, of the year, unreadable, empty,
\* missing; their kinds: albums, singles of 0 to 5 tracks with and without
\* "ep" in the name, a compilation
AlbumPool ==
    {Release("d22", "album", 1, NameFoo, <<TodayString>>),
     Release("d15", "single", 5, NameFoo,
             <<<<"2", "0", "2", "5", "-", "0", "8", "-", "1", "5">>>>),
     Release("d12", "album", 9, NameFoo,
             <<<<"2", "0", "2", "5", "-", "0", "8", "-", "1", "2">>>>),
     Release("d11", "album", 9, NameFoo,
             <<<<"2", "0", "2", "5", "-", "0", "8", "-", "1", "1">>>>),
     Release("m08", "single", 2, NameFooEP,
             <<<<"2", "0", "2", "5", "-", "0", "8">>>>),
     Release("y25", "single", 0, NameFoo, <<<<"2", "0", "2", "5">>>>),
     Release("abc", "album", 9, NameFoo, <<<<"a", "b", "c">>>>),
     Release("empty", "album", 9, NameFoo, <<<<>>>>),
     Release("none", "compilation", 8, NameFoo, <<>>),
     Release("s3", "single", 3, NameFoo, <<TodayString>>),
     Release("s0deep", "single", 0, NameDeep, <<TodayString>>)}

MaxReleases == 2

AlbumLists == UNION {[1..n -> AlbumPool] : n \in 1..MaxReleases}

Midnight == [day |-> NewDate(2025, 7, 22).day, ms |-> 0]

\* the time of the run and the options given to filterReleases
FilterSettings ==
    {<<Midnight, <<>>>>, <<Today, <<>>>>, <<Today, <<30>>>>}

\* the release date as isOlderThanDays reads it: the numbers between the
\* dashes, <<>> for a falsy string
DateNumbers(releaseDateString) ==
    IF FalsyDateString(releaseDateString) THEN <<>>
    ELSE LET parts == split(releaseDateString[1])
         IN  [k \in 1..Len(parts) |-> parseIntPrefix(parts[k])[1]]

Unreadable(releaseDateString) ==
    /\ ~FalsyDateString(releaseDateString)
    /\ \E k \in 1..Len(split(releaseDateString[1])) :
           parseIntPrefix(split(releaseDateString[1])[k]) = <<>>

\* retrieval.isOlderThanDays(album.release_date, 10) ; an Invalid Date is
\* not before the cutoff
IsOlder(album) ==
    IF Unreadable(album.release_date) THEN FALSE
    ELSE isOlderThanDays(DateNumbers(album.release_date), windowDays)

\* retrieval.isOlderThanDays(album.release_date, daysBack)
IsOlderThan(album, daysBack) ==
    IF Unreadable(album.release_date) THEN FALSE
    ELSE isOlderThanDays(DateNumbers(album.release_date), daysBack)

Verdict(album) ==
    [albumOrEP   |-> isAlbumOrEP(album),
     releaseDate |-> parseReleaseDate(album.release_date),
     recent      |-> isRecentRelease(album, DaysBack(filterOptions)),
     older       |-> IsOlder(album),
     olderThan   |-> IsOlderThan(album, DaysBack(filterOptions))]

Classify ==
    /\ stage = 0
    /\ verdicts' = [k \in 1..Len(testAlbums) |-> Verdict(testAlbums[k])]
    /\ stage' = 1
    /\ UNCHANGED <<testAlbums, filterOptions, sorted, filtered>>
    /\ UNCHANGED <<retrievalVars, mergeVars, extractVars, playlistVars>>

SortAlbums ==
    /\ stage = 1
    /\ \E order \in Sort(testAlbums) : sorted' = order
    /\ stage' = 2
    /\ UNCHANGED <<testAlbums, filterOptions, verdicts, filtered>>
    /\ UNCHANGED <<retrievalVars, mergeVars, extractVars, playlistVars>>

FilterReleases ==
    /\ stage = 2
    /\ \E returned \in filterReleases(testAlbums, filterOptions) :
           filtered' = returned
    /\ stage' = 3
    /\ UNCHANGED <<testAlbums, filterOptions, verdicts, sorted>>
    /\ UNCHANGED <<retrievalVars, mergeVars, extractVars, playlistVars>>

InitFilter ==
    \E setting \in FilterSettings, list \in AlbumLists :
        /\ InitRunAt(<<>>, <<>>, undefined, 0, setting[1])
        /\ NoMerge
        /\ NoExtract
        /\ NoPlaylist
        /\ testAlbums = list
        /\ filterOptions = setting[2]
        /\ stage = 0
        /\ verdicts = <<>>
        /\ sorted = <<>>
        /\ filtered = <<>>

NextFilter == Classify \/ SortAlbums \/ FilterReleases

SpecFilter == InitFilter /\ [][NextFilter]_vars

(***************************************************************************)
(* The artist sources.  FollowedArtists.fetchAll, LikedArtists.extractAll  *)
(* and SavedAlbumsArtists.extractAll read what the user has saved page by  *)
(* page and collect the artists.  An item of the library is the sequence   *)
(* of the artist ids it names (a followed artist names itself; a saved     *)
(* track without track object names none).  The service answers a page     *)
(* request with the items from the offset on, at most pageLimit of them,   *)
(* and the length of the library, or with an error status.                 *)
(***************************************************************************)
pageLimit == 50

MaxPages == 3

LibrarySizes ==
    {0, 1} \cup {k * pageLimit : k \in 1..(MaxPages - 1)}
           \cup {k * pageLimit + 1 : k \in 1..(MaxPages - 1)}

\* the page an item lies on
PageOfItem(k) == ((k - 1) \div pageLimit) + 1

\* the libraries: each page names an artist of its own; all items name one
\* artist; the items name an artist of all pages and one of their page; the
\* items of the first page name no artist
LibraryKinds == {"paged", "same", "duo", "late"}

Library(n, kind) ==
    [k \in 1..n |->
        IF kind = "paged" THEN <<PageOfItem(k)>>
        ELSE IF kind = "same" THEN <<1>>
        ELSE IF kind = "duo" THEN <<1, PageOfItem(k) + 1>>
        ELSE IF k <= pageLimit THEN <<>> ELSE <<2>>]

\* response.body of getMySavedTracks and getMySavedAlbums, and
\* response.body.artists of getFollowedArtists with its cursor
PageBody(from) ==
    [items |-> SubSeq(library, from + 1, Min(from + pageLimit, Len(library))),
     total |-> Len(library),
     cursors |-> IF from + pageLimit < Len(library)
                 THEN <<from + pageLimit>> ELSE <<>>]

PageStatuses == {429, 401, 500, 404}

\* the error fetchPage throws for an error answer
PageError(status) ==
    IF status = 429 THEN "Rate limited"
    ELSE IF status = 401 THEN "Access token expired"
    ELSE IF status >= 500 THEN "Spotify API error"
    ELSE "WebapiError"

\* artistsMap after the artists of the items were set, each under its id
\* unless the map has the id
RECURSIVE SetArtists(_, _)
SetArtists(map, ids) ==
    IF ids = <<>> THEN map
    ELSE IF \E k \in 1..Len(map) : map[k] = Head(ids)
         THEN SetArtists(map, Tail(ids))
         ELSE SetArtists(Append(map, Head(ids)), Tail(ids))

RECURSIVE ArtistsOfItems(_)
ArtistsOfItems(items) ==
    IF items = <<>> THEN <<>>
    ELSE Head(items) \o ArtistsOfItems(Tail(items))

Extracted(artistList) == [type |-> "returned", artists |-> artistList, error |-> ""]

\* the error is thrown whatever was collected
ExtractCatchAlwaysThrows(collected, error) ==
    [type |-> "threw", artists |-> <<>>, error |-> error]

\* catch (error): the partial list if it has an artist, else the error
ExtractCatch(collected, error) ==
    IF Len(collected) > 0
    THEN [type |-> "returned", artists |-> collected, error |-> error]
    ELSE [type |-> "threw", artists |-> <<>>, error |-> error]

\* while (offset < totalTracks && page.items.length > 0) of
\* LikedArtists.extractAll: page is declared in the block of the loop's
\* body and is not in scope in the condition, so reading it throws a
\* ReferenceError; it is read only when offset < totalTracks holds
LikedWhile(from, total) ==
    IF from < total THEN "ReferenceError" ELSE "exit"

\* while (hasMoreItems && (totalAlbums === null || offset < totalAlbums))
SavedAlbumsWhile(more, from, total) ==
    IF more /\ (total = <<>> \/ from < total[1]) THEN "continue" ELSE "exit"

\* while (after && (totalAvailable === null || totalFetched < totalAvailable))
FollowedWhile(cursor, fetched, total) ==
    IF cursor # <<>> /\ (total = <<>> \/ fetched < total[1])
    THEN "continue" ELSE "exit"

\* the loop goes round, or the call ends with what it returns or throws
LoopEnd(outcome, collected) ==
    IF outcome = "continue"
    THEN xpc' = "fetch" /\ UNCHANGED extracted
    ELSE /\ xpc' = "done"
         /\ extracted' = IF outcome = "exit" THEN Extracted(collected)
                         ELSE ExtractCatch(collected, outcome)

\* fetchPage(after, 50), fetchTracksPage(offset, 50), fetchAlbumsPage(offset, 50)
FetchPage ==
    /\ xpc = "fetch"
    /\ pageCalls' = Append(pageCalls,
                           IF extractor = "followed"
                           THEN (IF after = <<>> THEN 0 ELSE after[1])
                           ELSE pageOffset)
    /\ xpc' = "await"
    /\ UNCHANGED <<extractor, library, pageOffset, after, totalFetched,
                   totalItems, hasMoreItems, artistsMap, extracted>>
    /\ UNCHANGED <<retrievalVars, mergeVars, filterVars, playlistVars>>

\* the page request is answered with an error
PageFails(status) ==
    /\ xpc = "await"
    /\ xpc' = "done"
    /\ extracted' = ExtractCatch(artistsMap, PageError(status))
    /\ UNCHANGED <<extractor, library, pageOffset, after, totalFetched,
                   totalItems, hasMoreItems, artistsMap, pageCalls>>
    /\ UNCHANGED <<retrievalVars, mergeVars, filterVars, playlistVars>>

\* FollowedArtists.fetchAll: a page arrives
FollowedPage ==
    /\ xpc = "await" /\ extractor = "followed"
    /\ LET page == PageBody(pageCalls[Len(pageCalls)])
       IN  IF Len(page.items) > 0
           THEN /\ totalItems' = IF totalItems = <<>> THEN <<page.total>>
                                 ELSE totalItems
                /\ artistsMap' = artistsMap \o ArtistsOfItems(page.items)
                /\ totalFetched' = totalFetched + Len(page.items)
                /\ after' = page.cursors
                /\ LoopEnd(FollowedWhile(after', totalFetched', totalItems'),
                           artistsMap')
           ELSE /\ LoopEnd("exit", artistsMap)
                /\ UNCHANGED <<totalItems, artistsMap, totalFetched, after>>
    /\ UNCHANGED <<extractor, library, pageOffset, hasMoreItems, pageCalls>>
    /\ UNCHANGED <<retrievalVars, mergeVars, filterVars, playlistVars>>

\* LikedArtists.extractAll: a page arrives
LikedPage ==
    /\ xpc = "await" /\ extractor = "liked"
    /\ LET page == PageBody(pageCalls[Len(pageCalls)])
       IN  /\ totalItems' = IF totalItems = <<>> THEN <<page.total>>
                            ELSE totalItems
           /\ IF Len(page.items) > 0
              THEN /\ artistsMap' = SetArtists(artistsMap,
                                               ArtistsOfItems(page.items))
                   /\ totalFetched' = totalFetched + Len(page.items)
                   /\ pageOffset' = pageOffset + Len(page.items)
                   /\ LoopEnd(LikedWhile(pageOffset', totalItems'[1]),
                              artistsMap')
              ELSE /\ LoopEnd("exit", artistsMap)
                   /\ UNCHANGED <<artistsMap, totalFetched, pageOffset>>
    /\ UNCHANGED <<extractor, library, after, hasMoreItems, pageCalls>>
    /\ UNCHANGED <<retrievalVars, mergeVars, filterVars, playlistVars>>

\* SavedAlbumsArtists.extractAll: a page arrives
SavedAlbumsPage ==
    /\ xpc = "await" /\ extractor = "savedAlbums"
    /\ LET page == PageBody(pageCalls[Len(pageCalls)])
       IN  /\ totalItems' = IF totalItems = <<>> THEN <<page.total>>
                            ELSE totalItems
           /\ IF Len(page.items) > 0
              THEN /\ artistsMap' = SetArtists(artistsMap,
                                               ArtistsOfItems(page.items))
                   /\ totalFetched' = totalFetched + Len(page.items)
                   /\ pageOffset' = pageOffset + Len(page.items)
                   /\ hasMoreItems' = (Len(page.items) = pageLimit)
              ELSE /\ hasMoreItems' = FALSE
                   /\ UNCHANGED <<artistsMap, totalFetched, pageOffset>>
           /\ LoopEnd(SavedAlbumsWhile(hasMoreItems', pageOffset', totalItems'),
                      artistsMap')
    /\ UNCHANGED <<extractor, library, after, pageCalls>>
    /\ UNCHANGED <<retrievalVars, mergeVars, filterVars, playlistVars>>

InitExtract ==
    \E which \in {"followed", "liked", "savedAlbums"},
       n \in LibrarySizes, kind \in LibraryKinds :
        /\ which = "followed" => kind \in {"paged", "same"}
        /\ InitRun(<<>>, <<>>, undefined, 0)
        /\ NoMerge
        /\ NoFilter
        /\ NoPlaylist
        /\ extractor = which
        /\ library = Library(n, kind)
        /\ pageOffset = 0
        /\ after = <<>>
        /\ totalFetched = 0
        /\ totalItems = <<>>
        /\ hasMoreItems = TRUE
        /\ artistsMap = <<>>
        /\ pageCalls = <<>>
        /\ xpc = "fetch"
        /\ extracted = [type |-> "pending", artists |-> <<>>, error |-> ""]

NextExtract ==
    \/ FetchPage
    \/ \E status \in PageStatuses : PageFails(status)
    \/ FollowedPage
    \/ LikedPage
    \/ SavedAlbumsPage

SpecExtract == InitExtract /\ [][NextExtract]_vars

(***************************************************************************)
(* PlaylistManager (playlist-manager.js).  A playlist of the user has an   *)
(* id, a name and the ids of its tracks; getUserPlaylists lists the        *)
(* playlists in the order the service keeps them, 50 to the page.  A       *)
(* playlist of the model holds fewer than 100 tracks, so its tracks are    *)
(* one page of getPlaylistTracks.                                          *)
(***************************************************************************)
MaxUpdates == 3
MaxUserAdded == 1

\* lines 41 and 130: limit
playlistsLimit == 50

Releases == <<" ", "R", "e", "l", "e", "a", "s", "e", "s">>

\* String(n).padStart(2, '0')
padStart2(n) ==
    IF Len(NumberToString(n)) < 2 THEN <<"0">> \o NumberToString(n)
    ELSE NumberToString(n)

\* lines 25-31
getTodayDate ==
    NumberToString(calendarDay[1]) \o <<"-">>
        \o padStart2(calendarDay[2] + 1) \o <<"-">>
        \o padStart2(calendarDay[3])

\* lines 17-19
createPlaylistName(dateString) == dateString \o Releases

\* line 9: /^\d{4}-\d{2}-\d{2} Releases$/.test(playlistName)
playlistNamePattern(playlistName) ==
    /\ Len(playlistName) = 10 + Len(Releases)
    /\ \A k \in {1, 2, 3, 4, 6, 7, 9, 10} : IsDigit(playlistName[k])
    /\ playlistName[5] = "-"
    /\ playlistName[8] = "-"
    /\ SubSeq(playlistName, 11, Len(playlistName)) = Releases

Playlist(id, playlistName, trackIds) ==
    [id |-> id, name |-> playlistName, tracks |-> trackIds]

\* response.body.items of getUserPlaylists({offset, limit})
getUserPlaylists(from, count) ==
    SubSeq(userPlaylists, from + 1, Min(from + count, Len(userPlaylists)))

\* lines 44-57: the pages from an offset on, as long as a page is full
RECURSIVE DatePlaylistsFrom(_)
DatePlaylistsFrom(from) ==
    LET playlists == getUserPlaylists(from, playlistsLimit)
        matchingPlaylists ==
            SelectSeq(playlists, LAMBDA p : playlistNamePattern(p.name))
    IN  IF Len(playlists) = playlistsLimit
        THEN matchingPlaylists \o DatePlaylistsFrom(from + playlistsLimit)
        ELSE matchingPlaylists

\* lines 37-64
findExistingDatePlaylists == DatePlaylistsFrom(0)

\* lines 91-117
getPlaylistTrackIds(playlistId) ==
    LET k == CHOOSE h \in 1..Len(userPlaylists) :
                 userPlaylists[h].id = playlistId
    IN  userPlaylists[k].tracks

\* lines 70-84
getExcludedTrackIds ==
    UNION {Range(getPlaylistTrackIds(findExistingDatePlaylists[k].id)) :
              k \in 1..Len(findExistingDatePlaylists)}

\* lines 125-143: the first playlist of the first page that has the name
findTodayPlaylist(dateString) ==
    LET playlists == getUserPlaylists(0, playlistsLimit)
        found == {k \in 1..Len(playlists) :
                     playlists[k].name = createPlaylistName(dateString)}
    IN  IF found = {} THEN <<>>
        ELSE <<playlists[CHOOSE k \in found : \A h \in found : k <= h].id>>

\* the tracks the calls are given
TrackLists == {<<>>, <<1>>, <<2>>, <<1, 2>>}

Returned(id, created, added, skipped) ==
    [type |-> "returned", playlist |-> id, playlistCreated |-> created,
     tracksAdded |-> added, tracksSkipped |-> skipped]

Threw ==
    [type |-> "threw", playlist |-> <<>>, playlistCreated |-> FALSE,
     tracksAdded |-> 0, tracksSkipped |-> 0]

NotEnded ==
    [type |-> "pending", playlist |-> <<>>, playlistCreated |-> FALSE,
     tracksAdded |-> 0, tracksSkipped |-> 0]

\* lines 247-249: createOrUpdateTodayPlaylist(tracks) is called
StartUpdate ==
    /\ ppc = "idle"
    /\ updates < MaxUpdates
    /\ \E given \in TrackLists : tracksGiven' = given
    /\ updates' = updates + 1
    /\ newTracks' = <<>>
    /\ todayPlaylist' = <<>>
    /\ playlistCreated' = FALSE
    /\ updated' = NotEnded
    /\ ppc' = "exclude"
    /\ UNCHANGED <<userPlaylists, calendarDay, userAdded, playlistFaults>>
    /\ UNCHANGED <<retrievalVars, mergeVars, filterVars, extractVars>>

\* lines 252-263: the tracks of the date playlists are set aside
ExcludeTracks ==
    /\ ppc = "exclude"
    /\ newTracks' = SelectSeq(tracksGiven,
                              LAMBDA t : t \notin getExcludedTrackIds)
    /\ IF Len(newTracks') = 0
       THEN /\ updated' = Returned(<<>>, FALSE, 0, Len(tracksGiven))
            /\ ppc' = "idle"
       ELSE /\ ppc' = "find"
            /\ UNCHANGED updated
    /\ UNCHANGED <<userPlaylists, calendarDay, tracksGiven, todayPlaylist,
                   playlistCreated, updates, userAdded, playlistFaults>>
    /\ UNCHANGED <<retrievalVars, mergeVars, filterVars, extractVars>>

\* lines 265-267: let playlist = await this.findTodayPlaylist(today)
FindToday ==
    /\ ppc = "find"
    /\ todayPlaylist' = findTodayPlaylist(getTodayDate)
    /\ ppc' = IF todayPlaylist' = <<>> THEN "create" ELSE "add"
    /\ UNCHANGED <<userPlaylists, calendarDay, tracksGiven, newTracks,
                   playlistCreated, updated, updates, userAdded,
                   playlistFaults>>
    /\ UNCHANGED <<retrievalVars, mergeVars, filterVars, extractVars>>

\* lines 269-272 and 150-165: the playlist is created; the service lists it
\* first or last
CreateDatePlaylist ==
    /\ ppc = "create"
    /\ LET created == Playlist(Len(userPlaylists) + 1,
                               createPlaylistName(getTodayDate), <<>>)
       IN  /\ \/ userPlaylists' = <<created>> \o userPlaylists
              \/ userPlaylists' = userPlaylists \o <<created>>
           /\ todayPlaylist' = <<created.id>>
    /\ playlistCreated' = TRUE
    /\ ppc' = "add"
    /\ UNCHANGED <<calendarDay, tracksGiven, newTracks, updated, updates,
                   userAdded, playlistFaults>>
    /\ UNCHANGED <<retrievalVars, mergeVars, filterVars, extractVars>>

\* lines 274-292: the tracks the playlist does not hold are added to it
AddTracks ==
    /\ ppc = "add"
    /\ LET existingTrackIds == getPlaylistTrackIds(todayPlaylist[1])
           tracksToAdd ==
               SelectSeq(newTracks,
                         LAMBDA t : t \notin Range(existingTrackIds))
       IN  /\ userPlaylists' =
                 [k \in 1..Len(userPlaylists) |->
                     IF userPlaylists[k].id = todayPlaylist[1]
                     THEN [userPlaylists[k] EXCEPT !.tracks = @ \o tracksToAdd]
                     ELSE userPlaylists[k]]
           /\ updated' = Returned(todayPlaylist, playlistCreated,
                                  Len(tracksToAdd),
                                  Len(tracksGiven) - Len(tracksToAdd))
    /\ ppc' = "idle"
    /\ UNCHANGED <<calendarDay, tracksGiven, newTracks, todayPlaylist,
                   playlistCreated, updates, userAdded, playlistFaults>>
    /\ UNCHANGED <<retrievalVars, mergeVars, filterVars, extractVars>>

\* lines 294-296: a request of the call fails
UpdateFails ==
    /\ ppc \in {"exclude", "find", "create", "add"}
    /\ playlistFaults > 0
    /\ playlistFaults' = playlistFaults - 1
    /\ updated' = Threw
    /\ ppc' = "idle"
    /\ UNCHANGED <<userPlaylists, calendarDay, tracksGiven, newTracks,
                   todayPlaylist, playlistCreated, updates, userAdded>>
    /\ UNCHANGED <<retrievalVars, mergeVars, filterVars, extractVars>>

MixName == <<"M", "i", "x">>

\* between two calls the user creates a playlist of their own, which the
\* service lists first
UserCreatesPlaylist ==
    /\ ppc = "idle"
    /\ userAdded < MaxUserAdded
    /\ userAdded' = userAdded + 1
    /\ userPlaylists' =
          <<Playlist(Len(userPlaylists) + 1, MixName, <<>>)>> \o userPlaylists
    /\ UNCHANGED <<calendarDay, tracksGiven, newTracks, todayPlaylist,
                   playlistCreated, ppc, updated, updates, playlistFaults>>
    /\ UNCHANGED <<retrievalVars, mergeVars, filterVars, extractVars>>

\* the days of the runs: getFullYear(), getMonth(), getDate()
CalendarDays == {<<2025, 7, 22>>, <<2025, 11, 5>>}

\* the playlists the user has before the first call: others of their own,
\* followed or not by the playlist of an earlier day that holds track 1
EarlierPlaylist(id) ==
    Playlist(id, createPlaylistName(<<"2", "0", "2", "5", "-", "0", "8",
                                      "-", "2", "1">>), <<1>>)

OtherPlaylists == {0, 1, playlistsLimit - 1, playlistsLimit}

InitPlaylists ==
    /\ InitRun(<<>>, <<>>, undefined, 0)
    /\ NoMerge
    /\ NoFilter
    /\ NoExtract
    /\ calendarDay \in CalendarDays
    /\ \E n \in OtherPlaylists, earlier \in BOOLEAN :
          userPlaylists =
             [k \in 1..n |-> Playlist(k, MixName, <<>>)]
                \o (IF earlier THEN <<EarlierPlaylist(n + 1)>> ELSE <<>>)
    /\ tracksGiven = <<>>
    /\ newTracks = <<>>
    /\ todayPlaylist = <<>>
    /\ playlistCreated = FALSE
    /\ ppc = "idle"
    /\ updated = NotEnded
    /\ updates = 0
    /\ userAdded = 0
    /\ playlistFaults = 1

NextPlaylists ==
    \/ StartUpdate
    \/ ExcludeTracks
    \/ FindToday
    \/ CreateDatePlaylist
    \/ AddTracks
    \/ UpdateFails
    \/ UserCreatesPlaylist

SpecPlaylists == InitPlaylists /\ [][NextPlaylists]_vars

(***************************************************************************)
(* What the history says.                                                  *)
(***************************************************************************)
\* the requests issued so far: the answered ones, then the awaited one
Issued ==
    log \o (IF request.endpoint = "none" THEN <<>>
            ELSE <<[call |-> Len(fetches), artist |-> request.artist,
                    endpoint |-> request.endpoint, offset |-> request.offset,
                    tagNew |-> request.tagNew, at |-> clock, status |-> -1,
                    retryAfter |-> NoRetryAfter]>>)

\* the seconds a 429 answer asks to wait (1 second when it names none)
Carried(entry) ==
    IF entry.retryAfter = NoRetryAfter THEN defaultRetryAfter
    ELSE entry.retryAfter

\* the answered requests of the f-th call of fetchArtistAlbums
AnswersOf(f) == SelectSeq(log, LAMBDA e : e.call = f)

\* the status of the answer that ended the f-th call
EndStatus(f) == AnswersOf(f)[Len(AnswersOf(f))].status

Ended(f) == fetches[f].outcome # "pending"

\* the f-th call failed with RateLimited: its scan was answered 429
RateLimited(f) ==
    /\ fetches[f].outcome = "threw"
    /\ EndStatus(f) = 429

\* days from 1 January to the first of each month of a common year
MonthStarts == <<0, 31, 59, 90, 120, 151, 181, 212, 243, 273, 304, 334>>

\* the day a release date stands for, counted from 1 January of BaseYear:
\* a missing month is January, a missing day the 1st
DayOfDate(date) ==
    LET y == date[1]
        m == IF Len(date) >= 2 THEN date[2] ELSE 1
        d == IF Len(date) >= 3 THEN date[3] ELSE 1
    IN  (y - BaseYear) * 365
          + Cardinality({x \in BaseYear..(y - 1) : IsLeapYear(x)})
          + MonthStarts[m] + (IF m > 2 /\ IsLeapYear(y) THEN 1 ELSE 0)
          + (d - 1)

\* the release is outside the recency window: its instant is earlier than
\* now - windowDays * 86400 s; a release without date is never within it
OutsideWindow(date) ==
    \/ date = <<>>
    \/ DayOfDate(date) < now.day - windowDays
    \/ DayOfDate(date) = now.day - windowDays /\ 0 < now.ms

\* position in the discography of the first release outside the window
\* (Len + 1 when there is none), and the page it lies on
FirstOld(artistId) ==
    LET all == catalog[artistId]
        old == {k \in 1..Len(all) : OutsideWindow(all[k].release_date)}
    IN  IF old = {} THEN Len(all) + 1
        ELSE CHOOSE k \in old : \A m \in old : k <= m

PageOf(position) == ((position - 1) \div limit) + 1

\* the answered artist-albums requests of the f-th call
PagesOf(f) == SelectSeq(log, LAMBDA e : e.call = f /\ e.endpoint = "albums")

\* the f-th call returned from the paginated scan, every page of which was
\* answered
CleanScan(f) ==
    /\ fetches[f].outcome = "returned"
    /\ PagesOf(f) # <<>>
    /\ \A k \in 1..Len(PagesOf(f)) : PagesOf(f)[k].status = 200

RECURSIVE Concat(_)
Concat(seqs) == IF seqs = <<>> THEN <<>> ELSE Head(seqs) \o Concat(Tail(seqs))

\* the call that settled the artist at position p of the list: its last one
LastCall(artistId) ==
    CHOOSE f \in 1..Len(fetches) :
        /\ fetches[f].artist = artistId
        /\ \A g \in 1..Len(fetches) : fetches[g].artist = artistId => g <= f

Succeeded(artistId) == fetches[LastCall(artistId)].outcome = "returned"

Contains(albums, al) == \E k \in 1..Len(albums) : albums[k] = al

\* the failed artists the run reports: the catches of processBatch record
\* nothing (lines 252-256) and fetchAllArtistAlbums returns allAlbums alone
\* (line 319)
failedArtistIds == {}

(***************************************************************************)
(* C1: when the first fetch of an artist fails with RateLimited carrying   *)
(* retry-after R, every later catalog request is issued at least R seconds *)
(* after the 429 answer, the next request and the next call of             *)
(* fetchArtistAlbums are for the same artist (its retry), the call after   *)
(* the retry is for another artist, and no artist is fetched more than     *)
(* twice in a run.                                                         *)
(***************************************************************************)
C1_PauseThenOneRetry ==
    /\ \A f \in 1..Len(fetches) :
          (fetches[f].attempt = 1 /\ RateLimited(f)) =>
             LET k == CHOOSE m \in 1..Len(log) :
                         log[m].call = f /\ log[m].status = 429
                             /\ log[m].endpoint = "albums"
             IN  /\ \A m \in (k + 1)..Len(Issued) :
                        Issued[m].at >= log[k].at + Carried(log[k]) * 1000
                 /\ k < Len(Issued) =>
                        /\ Issued[k + 1].artist = fetches[f].artist
                        /\ Issued[k + 1].call = f + 1
                 /\ f < Len(fetches) =>
                        /\ fetches[f + 1].artist = fetches[f].artist
                        /\ fetches[f + 1].attempt = 2
                 /\ f + 1 < Len(fetches) =>
                        fetches[f + 2].artist # fetches[f].artist
                 /\ pc = "done" => f < Len(fetches)
    /\ \A p \in 1..Len(artists) :
          Cardinality({f \in 1..Len(fetches) :
                          fetches[f].artist = artists[p]}) <= 2

\* a rate limit with a positive retry-after, its retry, and the next artist
\* being fetched
C1_Witness ==
    \E f \in 1..Len(fetches) :
        /\ fetches[f].attempt = 1
        /\ RateLimited(f)
        /\ Carried(AnswersOf(f)[Len(AnswersOf(f))]) >= 2
        /\ f + 2 <= Len(fetches)
        /\ request.endpoint # "none"

(***************************************************************************)
(* C2: when the run is over, for every artist X that was rate limited and  *)
(* retried: if the retry succeeded, X's releases are in the result; if it  *)
(* failed again, X is among the failed artists the run reports and the     *)
(* releases of every artist that succeeded are in the result.              *)
(***************************************************************************)
C2_RetryOutcomeReported ==
    pc = "done" =>
        \A f \in 1..Len(fetches) :
            fetches[f].attempt = 2 =>
               /\ fetches[f].outcome = "returned" =>
                     \A k \in 1..Len(fetches[f].albums) :
                        Contains(result.albums, fetches[f].albums[k])
               /\ fetches[f].outcome = "threw" =>
                     /\ fetches[f].artist \in failedArtistIds
                     /\ \A g \in 1..Len(fetches) :
                           \A k \in 1..Len(fetches[g].albums) :
                              Contains(result.albums, fetches[g].albums[k])

(***************************************************************************)
(* C3: within one call the pages are requested at increasing offsets, no   *)
(* page is requested after a page that holds a release outside the window, *)
(* and a scan whose pages were all answered issues exactly k requests when *)
(* the first release outside the window lies on page k.                    *)
(***************************************************************************)
C3_ScanStopsAtFirstOldPage ==
    \A f \in 1..Len(fetches) :
        LET pages == SelectSeq(Issued,
                        LAMBDA e : e.call = f /\ e.endpoint = "albums")
            a == fetches[f].artist
        IN  /\ \A k \in 1..Len(pages) : pages[k].offset = (k - 1) * limit
            /\ \A k \in 1..Len(pages) :
                  (k < Len(pages)) => FirstOld(a) > k * limit
            /\ (CleanScan(f) /\ FirstOld(a) <= Len(catalog[a])) =>
                  Len(pages) = PageOf(FirstOld(a))

\* Scenario B: item 25 of 3 pages of 20 is the first old one, 2 requests
C3_Witness ==
    \E f \in 1..Len(fetches) :
        /\ CleanScan(f)
        /\ Len(catalog[fetches[f].artist]) = 3 * limit
        /\ FirstOld(fetches[f].artist) = 25
        /\ Len(PagesOf(f)) = 2

(***************************************************************************)
(* C4 as claimed: a scan that stops early returns exactly the releases     *)
(* that precede the first release outside the window.                      *)
(***************************************************************************)
C4_ReturnsOnlyItemsBeforeFirstOld ==
    \A f \in 1..Len(fetches) :
        LET a == fetches[f].artist
        IN  (CleanScan(f) /\ FirstOld(a) <= Len(catalog[a])) =>
               fetches[f].albums =
                  MapAlbums(a, SubSeq(catalog[a], 1, FirstOld(a) - 1))

(***************************************************************************)
(* C4 as amended: a scan that stops early returns every release of the     *)
(* pages it requested, the page of the first release outside the window    *)
(* included to its end, and no release of a later page.                    *)
(***************************************************************************)
C4_ReturnsWholePages ==
    \A f \in 1..Len(fetches) :
        LET a == fetches[f].artist
        IN  (CleanScan(f) /\ FirstOld(a) <= Len(catalog[a])) =>
               fetches[f].albums =
                  MapAlbums(a, SubSeq(catalog[a], 1,
                                Min(PageOf(FirstOld(a)) * limit,
                                    Len(catalog[a]))))

\* Scenario B: item 25 of 60 is the first old one, 40 releases are returned
C4_Witness ==
    \E f \in 1..Len(fetches) :
        /\ CleanScan(f)
        /\ Len(catalog[fetches[f].artist]) = 3 * limit
        /\ FirstOld(fetches[f].artist) = 25
        /\ Len(fetches[f].albums) = 40

(***************************************************************************)
(* C5: once a call of fetchArtistAlbums has failed with Unauthorized (401) *)
(* no further call is made and no further request is issued, and the run   *)
(* ends as a failure.                                                      *)
(***************************************************************************)
C5_UnauthorizedIsFatal ==
    \A f \in 1..Len(fetches) :
        (fetches[f].outcome = "threw" /\ EndStatus(f) = 401) =>
           /\ f = Len(fetches)
           /\ pc = "done" => result.type = "throw"

(***************************************************************************)
(* C6: the first fetch of an artist that fails with a ServerError (5xx) or *)
(* a NetworkError is followed by exactly one more fetch of that artist.    *)
(***************************************************************************)
C6_ServerErrorRetriedOnce ==
    \A f \in 1..Len(fetches) :
        (fetches[f].attempt = 1 /\ fetches[f].outcome = "threw"
            /\ EndStatus(f) \in {500, 0}) =>
           /\ f < Len(fetches) =>
                 /\ fetches[f + 1].artist = fetches[f].artist
                 /\ fetches[f + 1].attempt = 2
           /\ pc = "done" => f < Len(fetches)

(***************************************************************************)
(* C7: a run over a non-empty list in which no artist succeeds does not    *)
(* return: it fails.                                                       *)
(***************************************************************************)
C7_TotalFailureFails ==
    (pc = "done" /\ Len(artists) > 0
        /\ \A p \in 1..Len(artists) : ~Succeeded(artists[p])) =>
       result.type = "throw"

(***************************************************************************)
(* C8: a run in which some artist succeeds returns the release lists of    *)
(* the artists that succeeded (at the first fetch or at the retry), one    *)
(* after the other in the order of the input list, and nothing else.       *)
(***************************************************************************)
C8_ResultIsUnionOfSuccesses ==
    (pc = "done" /\ \E p \in 1..Len(artists) : Succeeded(artists[p])) =>
       /\ result.type = "return"
       /\ result.albums =
             Concat([p \in 1..Len(artists) |->
                        IF Succeeded(artists[p])
                        THEN fetches[LastCall(artists[p])].albums
                        ELSE <<>>])

\* a finished run with a failed artist between two artists that delivered
\* releases, one of them at its retry
C8_Witness ==
    /\ pc = "done"
    /\ \E p, q, r \in 1..Len(artists) :
          /\ p < q /\ q < r
          /\ Succeeded(artists[p]) /\ ~Succeeded(artists[q])
          /\ Succeeded(artists[r])
          /\ fetches[LastCall(artists[p])].albums # <<>>
          /\ fetches[LastCall(artists[r])].albums # <<>>
          /\ fetches[LastCall(artists[p])].attempt = 2

(***************************************************************************)
(* C9 as claimed: under either strategy a request answered 429 is the last *)
(* request of its call, and the call fails with RateLimited.               *)
(***************************************************************************)
C9_No429RetriedInternally ==
    \A k \in 1..Len(log) :
        log[k].status = 429 =>
           /\ \A m \in (k + 1)..Len(Issued) : Issued[m].call # log[k].call
           /\ RateLimited(log[k].call)

(***************************************************************************)
(* C9 as amended: an artist-albums request answered 429 is the last        *)
(* request of its call, and the call fails with the RateLimited error that *)
(* carries the retry-after seconds of the answer (1 when it names none); a *)
(* search request answered 429 is followed by a further request of the     *)
(* same call.                                                              *)
(***************************************************************************)
C9_ScanNeverRetries429 ==
    \A k \in 1..Len(log) :
        log[k].status = 429 =>
           IF log[k].endpoint = "albums"
           THEN /\ \A m \in (k + 1)..Len(Issued) : Issued[m].call # log[k].call
                /\ fetches[log[k].call].outcome = "threw"
                /\ fetches[log[k].call].error.message =
                      <<RateLimitedPhrase>>
                         \o NumberToString(Carried(log[k])) \o <<" seconds">>
           ELSE /\ k < Len(Issued)
                /\ Issued[k + 1].call = log[k].call

\* a 429 on a page after the first one
C9_Witness ==
    \E k \in 1..Len(log) :
        /\ log[k].status = 429
        /\ log[k].endpoint = "albums"
        /\ log[k].offset > 0
        /\ Ended(log[k].call)

(***************************************************************************)
(* C10: a call whose artist-albums request is answered 404 returns the     *)
(* empty list; it is the last call for its artist (no retry), and the next *)
(* request follows after no more than the ordinary delay between artists   *)
(* or batches.                                                             *)
(***************************************************************************)
C10_NotFoundIsEmptyResult ==
    \A k \in 1..Len(log) :
        (log[k].status = 404 /\ log[k].endpoint = "albums") =>
           LET f == log[k].call
           IN  /\ fetches[f].outcome = "returned"
               /\ fetches[f].albums = <<>>
               /\ \A g \in (f + 1)..Len(fetches) :
                     fetches[g].artist # fetches[f].artist
               /\ k < Len(Issued) =>
                     Issued[k + 1].at - log[k].at <= 2 * rateLimitDelay
               /\ pc = "done" => Succeeded(fetches[f].artist)

\* a 404 on the second page of an artist, and the next artist being fetched
C10_Witness ==
    \E k \in 1..Len(log) :
        /\ log[k].status = 404
        /\ log[k].endpoint = "albums"
        /\ k < Len(Issued)
        /\ Issued[k + 1].artist # log[k].artist

(***************************************************************************)
(* C11: the RateLimited error of a call whose artist-albums request is     *)
(* answered 429 carries the retry-after seconds of the answer (1 when the  *)
(* answer names none), and the retry of a first fetch that failed so is    *)
(* called no sooner than 1 second after the 429 answer, whatever the       *)
(* retry-after value (0 and a missing header included).                    *)
(***************************************************************************)
C11_WaitNeverShorterThanOneSecond ==
    \A f \in 1..Len(fetches) :
        RateLimited(f) =>
           LET answer == AnswersOf(f)[Len(AnswersOf(f))]
           IN  /\ fetches[f].error.message =
                     <<RateLimitedPhrase>>
                        \o NumberToString(Carried(answer)) \o <<" seconds">>
               /\ (fetches[f].attempt = 1 /\ f < Len(fetches)) =>
                     fetches[f + 1].at - answer.at >= 1000

\* the position of an artist in the list, and the batch it falls in
PositionOf(artistId) == CHOOSE p \in 1..Len(artists) : artists[p] = artistId

BatchOf(artistId) == ((PositionOf(artistId) - 1) \div batchSize) + 1

\* the artist is done with: a call for it has ended that is not a first
\* fetch failing with a rate limit (which is retried)
Finished(artistId, before) ==
    \E f \in 1..Len(fetches) :
        /\ f < before
        /\ fetches[f].artist = artistId
        /\ Ended(f)
        /\ ~(fetches[f].attempt = 1 /\ RateLimited(f))

FirstFetches == SelectSeq(fetches, LAMBDA c : c.attempt = 1)

\* the time slept between the last answer of the call before the f-th
\* and the f-th call (since the start of the run for the first call)
DelayBefore(f) ==
    fetches[f].at - (IF f = 1 THEN 0
                     ELSE AnswersOf(f - 1)[Len(AnswersOf(f - 1))].at)

(***************************************************************************)
(* C13: the first fetches are for the artists of the list, each once and   *)
(* in the order of the list, all of them when the run is over; the first   *)
(* fetch of the artist at position p follows the call before it after      *)
(* rateLimitDelay, except at the head of a batch of batchSize = 10         *)
(* (p = 11, 21, ...), where it follows after 2 x rateLimitDelay, and at    *)
(* p = 1, where it follows at once; nothing is slept after the last batch. *)
(***************************************************************************)
C13_BatchesInOrderWithDelays ==
    /\ Len(FirstFetches) <= Len(artists)
    /\ \A p \in 1..Len(FirstFetches) : FirstFetches[p].artist = artists[p]
    /\ pc = "done" => Len(FirstFetches) = Len(artists)
    /\ \A f \in 1..Len(fetches) :
          fetches[f].attempt = 1 =>
             LET p == Cardinality({g \in 1..f : fetches[g].attempt = 1})
             IN  DelayBefore(f) =
                    IF p = 1 THEN 0
                    ELSE IF (p - 1) % 10 = 0 THEN 2 * rateLimitDelay
                    ELSE rateLimitDelay
    /\ (pc = "done" /\ log # <<>>) => clock = log[Len(log)].at

\* a run over two batches is over, one of its artists was retried
C13_Witness ==
    /\ pc = "done"
    /\ Len(artists) > 10
    /\ \E f \in 1..Len(fetches) : fetches[f].attempt = 2

\* the requests of the f-th call of fetchArtistAlbums, the awaited one last
RequestsOf(f) == SelectSeq(Issued, LAMBDA e : e.call = f)

\* the request was answered with an error
Errored(entry) == entry.status # 200 /\ entry.status # -1

Lists(al, artistId) == \E k \in 1..Len(al.artists) : al.artists[k] = artistId

Ids(albums) == [k \in 1..Len(albums) |-> albums[k].id]

\* the items of the untagged search answer that list the artist and lie
\* within the recency window
RecentOfArtist(artistId) ==
    SelectSeq(SearchItems(artistId, FALSE, searchLimit), LAMBDA al :
        Lists(al, artistId) /\ ~OutsideWindow(al.release_date))

(***************************************************************************)
(* C14: under the optimized strategy the first request of a call is the    *)
(* search with the recency tag; a second request is issued exactly when    *)
(* the first was answered with an error, and is the search without the     *)
(* tag, whose successful answer ends the call with the items of the        *)
(* artist that lie within the window; a third request is issued exactly    *)
(* when the second was answered with an error too, and is the first page   *)
(* of the paginated scan; a call fails only on an error answer of the      *)
(* artist-albums endpoint.                                                 *)
(***************************************************************************)
C14_SearchFallsBackThenScans ==
    useSearchOptimization =>
       \A f \in 1..Len(fetches) :
          LET reqs == RequestsOf(f)
          IN  /\ reqs # <<>>
              /\ reqs[1].endpoint = "search" /\ reqs[1].tagNew
              /\ Errored(reqs[1]) <=> Len(reqs) >= 2
              /\ Len(reqs) >= 2 =>
                    /\ reqs[2].endpoint = "search" /\ ~reqs[2].tagNew
                    /\ Errored(reqs[2]) <=> Len(reqs) >= 3
                    /\ reqs[2].status = 200 =>
                          /\ fetches[f].outcome = "returned"
                          /\ Ids(fetches[f].albums) =
                                Ids(RecentOfArtist(fetches[f].artist))
              /\ Len(reqs) >= 3 =>
                    /\ reqs[3].endpoint = "albums" /\ reqs[3].offset = 0
                    /\ \A k \in 3..Len(reqs) : reqs[k].endpoint = "albums"
              /\ fetches[f].outcome = "threw" =>
                    /\ reqs[Len(reqs)].endpoint = "albums"
                    /\ reqs[Len(reqs)].status \notin {200, 404}

\* both searches of a call failed and its scan returned releases
C14_Witness ==
    /\ useSearchOptimization
    /\ \E f \in 1..Len(fetches) :
          /\ Len(RequestsOf(f)) >= 3
          /\ fetches[f].outcome = "returned"
          /\ Len(fetches[f].albums) = 2

\* the artist-albums requests of the f-th call, the awaited one included
ScanRequestsOf(f) == SelectSeq(RequestsOf(f), LAMBDA e : e.endpoint = "albums")

\* the search requests of the f-th call that were answered with an error
FailedSearchesOf(f) ==
    SelectSeq(RequestsOf(f), LAMBDA e : e.endpoint = "search" /\ Errored(e))

(***************************************************************************)
(* C15 as claimed: under the optimized strategy a call that returns        *)
(* without having run the paginated scan returns releases; a call whose    *)
(* search ends with an empty result runs the scan before it returns.       *)
(***************************************************************************)
C15_EmptySearchRunsScan ==
    useSearchOptimization =>
       \A f \in 1..Len(fetches) :
          (fetches[f].outcome = "returned" /\ fetches[f].albums = <<>>) =>
             ScanRequestsOf(f) # <<>>

(***************************************************************************)
(* C15 as amended: under the optimized strategy the paginated scan is run  *)
(* in a call exactly when both search queries were answered with an error; *)
(* a search query answered successfully is the last request of its call,   *)
(* which returns what the search kept, the empty list included, without a  *)
(* scan.                                                                   *)
(***************************************************************************)
C15_ScanOnlyAfterSearchErrors ==
    useSearchOptimization =>
       \A f \in 1..Len(fetches) :
          LET reqs == RequestsOf(f)
          IN  /\ ScanRequestsOf(f) # <<>> <=> Len(FailedSearchesOf(f)) = 2
              /\ \A k \in 1..Len(reqs) :
                    (reqs[k].endpoint = "search" /\ reqs[k].status = 200) =>
                       /\ k = Len(reqs)
                       /\ fetches[f].outcome = "returned"
                       /\ ScanRequestsOf(f) = <<>>
                       /\ \A n \in 1..Len(fetches[f].albums) :
                             Lists(fetches[f].albums[n], fetches[f].artist)

\* the tagged search of an artist with one release was answered
\* successfully and the call returned the empty list without a scan
C15_Witness ==
    /\ useSearchOptimization
    /\ \E f \in 1..Len(fetches) :
          /\ fetches[f].outcome = "returned"
          /\ fetches[f].albums = <<>>
          /\ catalog[fetches[f].artist] # <<>>
          /\ Len(RequestsOf(f)) = 1
          /\ RequestsOf(f)[1].status = 200

\* the call ended on a successful search answer
ReturnedFromSearch(f) ==
    /\ fetches[f].outcome = "returned"
    /\ RequestsOf(f)[Len(RequestsOf(f))].endpoint = "search"
    /\ RequestsOf(f)[Len(RequestsOf(f))].status = 200

(***************************************************************************)
(* C16: every release a call returns from a search answer, of the tagged   *)
(* or of the untagged query, lists the artist of the call among its        *)
(* artist ids, is an item of that answer, and is not the item of another   *)
(* artist the answer held; every item of the tagged answer that lists the  *)
(* artist is returned.                                                     *)
(***************************************************************************)
C16_SearchKeepsExactArtistOnly ==
    \A f \in 1..Len(fetches) :
       ReturnedFromSearch(f) =>
          LET a == fetches[f].artist
              tagNew == RequestsOf(f)[Len(RequestsOf(f))].tagNew
              items == SearchItems(a, tagNew, searchLimit)
          IN  /\ \A n \in 1..Len(fetches[f].albums) :
                    /\ Lists(fetches[f].albums[n], a)
                    /\ fetches[f].albums[n].id # 0
                    /\ \E k \in 1..Len(items) :
                          items[k].id = fetches[f].albums[n].id
              /\ tagNew =>
                    \A k \in 1..Len(items) :
                       Lists(items[k], a) =>
                          \E n \in 1..Len(fetches[f].albums) :
                             fetches[f].albums[n].id = items[k].id

\* releases were returned from the tagged and from the untagged search,
\* whose answers both held an item of another artist
C16_Witness ==
    /\ \E f \in 1..Len(fetches) :
          /\ ReturnedFromSearch(f)
          /\ Len(RequestsOf(f)) = 1
          /\ fetches[f].albums # <<>>
    /\ \E f \in 1..Len(fetches) :
          /\ ReturnedFromSearch(f)
          /\ Len(RequestsOf(f)) = 2
          /\ fetches[f].albums # <<>>
          /\ \E k \in 1..Len(SearchItems(fetches[f].artist, FALSE, searchLimit)) :
                ~Lists(SearchItems(fetches[f].artist, FALSE, searchLimit)[k],
                       fetches[f].artist)

(***************************************************************************)
(* C17: a retrieval object built without options, or with a                *)
(* useSearchOptimization option that is not the boolean true (false, the   *)
(* string 'true', the number 1), never issues a search request: every      *)
(* call of fetchArtistAlbums starts with the first page of the artist-     *)
(* albums endpoint and all its requests go to that endpoint.  Built with   *)
(* true, every call starts with a search request.                          *)
(***************************************************************************)
C17_SearchIsOptIn ==
    /\ options # "true" =>
          /\ \A m \in 1..Len(Issued) : Issued[m].endpoint = "albums"
          /\ \A f \in 1..Len(fetches) :
                /\ RequestsOf(f) # <<>>
                /\ RequestsOf(f)[1].offset = 0
    /\ options = "true" =>
          \A f \in 1..Len(fetches) : RequestsOf(f)[1].endpoint = "search"

\* a run of an object built with the string 'true' is over, having issued
\* requests
C17_Witness ==
    /\ options = "'true'"
    /\ pc = "done"
    /\ Len(log) >= 2

(***************************************************************************)
(* What the three lists say.                                               *)
(***************************************************************************)
\* the list of source n has an entry with this (non-empty) id
OccursIn(n, id) ==
    \E k \in 1..Len(SourceList(n)) : SourceList(n)[k].id = <<id>>

\* how many entries of the three lists have this id
Occurrences(id) ==
    Cardinality({<<n, k>> \in (1..3) \X (1..MaxEntries + 1) :
                    k <= Len(SourceList(n)) /\ SourceList(n)[k].id = <<id>>})

\* the non-empty ids of the three lists
InputIds == {id \in {"a", "b"} : \E n \in 1..3 : OccursIn(n, id)}

\* the entries combineArtistSources is done with, in the order it takes them
Processed ==
    LET part(n) == IF n < source THEN SourceList(n)
                   ELSE IF n = source THEN SubSeq(SourceList(n), 1, index)
                   ELSE <<>>
    IN  part(1) \o part(2) \o part(3)

(***************************************************************************)
(* C18: the list combineArtistSources returns holds one artist for every   *)
(* non-empty id of the three lists and no other, none of them twice,       *)
(* however often the id occurs in one list or in several; an artist whose  *)
(* id occurs in one list only, once or more often, has sources of length 1.*)
(***************************************************************************)
C18_OneArtistPerId ==
    source = 4 =>
       /\ {combined[k].id : k \in 1..Len(combined)} = InputIds
       /\ Len(combined) = Cardinality(InputIds)
       /\ \A k \in 1..Len(combined) :
             Cardinality({n \in 1..3 : OccursIn(n, combined[k].id)}) = 1 =>
                Len(combined[k].sources) = 1

\* the same artist twice in the followed list and in no other list, another
\* artist in two lists, and the merge has returned
C18_Witness ==
    /\ source = 4
    /\ Len(followedArtists) = 2
    /\ followedArtists[1].id = <<"a">>
    /\ followedArtists[2].id = <<"a">>
    /\ ~OccursIn(2, "a") /\ ~OccursIn(3, "a")
    /\ OccursIn(2, "b") /\ OccursIn(3, "b")

(***************************************************************************)
(* C19: every artist of the returned list has sources that are not empty,  *)
(* name no source twice, and name a source exactly when the artist's id    *)
(* occurs in the list of that source.                                      *)
(***************************************************************************)
C19_SourcesAreTheListsOfTheId ==
    source = 4 =>
       \A k \in 1..Len(combined) :
          LET tags == combined[k].sources
          IN  /\ tags # <<>>
              /\ \A m, n \in 1..Len(tags) : m # n => tags[m] # tags[n]
              /\ \A n \in 1..3 :
                    Includes(tags, SourceNames[n]) <=>
                       OccursIn(n, combined[k].id)

\* Scenario A: an artist of the followed and of the liked-tracks list, not
\* of the saved-albums list, returned by a manager that was used before
C19_Witness ==
    /\ source = 4
    /\ OccursIn(1, "a") /\ OccursIn(2, "a") /\ ~OccursIn(3, "a")
    /\ Occurrences("a") >= 3
    /\ \E k \in 1..Len(combined) :
          /\ combined[k].id = "a"
          /\ combined[k].sources = <<"followed", "liked_tracks">>

(***************************************************************************)
(* C20: at every point of the merge and in the list it returns, name,      *)
(* profile URL, genres, popularity and follower count of an artist are     *)
(* those the first entry with its id established (in the order followed,   *)
(* liked_tracks, saved_albums): name, URL and genres are that entry's,     *)
(* popularity and follower count are that entry's or missing; no later     *)
(* entry changes them.                                                     *)
(***************************************************************************)
C20_FirstOccurrenceEstablishesRecord ==
    source \in 1..4 =>
       /\ \A k \in 1..Len(combinedArtists) :
             LET r == combinedArtists[k]
                 at == CHOOSE m \in 1..Len(Processed) :
                          /\ Processed[m].id = <<r.id>>
                          /\ \A n \in 1..(m - 1) : Processed[n].id # <<r.id>>
                 first == Processed[at]
             IN  /\ \E m \in 1..Len(Processed) : Processed[m].id = <<r.id>>
                 /\ r.name = first.name
                 /\ r.spotify_url = first.spotify_url
                 /\ r.genres = first.genres
                 /\ r.popularity \in {first.popularity, <<>>}
                 /\ r.followers \in {first.followers, <<>>}
                 /\ first.popularity \notin {<<>>, <<0>>} =>
                       r.popularity = first.popularity
                 /\ first.followers \notin {<<>>, <<0>>} =>
                       r.followers = first.followers
       /\ source = 4 => combined = combinedArtists

\* an artist of three entries, the first of them a followed one with
\* popularity, is returned
C20_Witness ==
    /\ source = 4
    /\ Occurrences("a") >= 3
    /\ followedArtists # <<>>
    /\ followedArtists[1].id = <<"a">>
    /\ OccursIn(2, "a")
    /\ \E k \in 1..Len(combined) :
          /\ combined[k].id = "a"
          /\ combined[k].popularity = <<51>>
          /\ combined[k].name = <<"followed", 1>>

(***************************************************************************)
(* C21: no artist of the returned list has an empty id, and an entry with  *)
(* an empty or missing id does not end the merge: every entry with an id,  *)
(* of the same list after it and of the later lists too, has its artist    *)
(* in the returned list, with the entry's source among its sources.        *)
(***************************************************************************)
C21_EntryWithoutIdIsSkipped ==
    source = 4 =>
       /\ \A k \in 1..Len(combined) : combined[k].id # ""
       /\ \A n \in 1..3 :
             \A k \in 1..Len(SourceList(n)) :
                ~FalsyString(SourceList(n)[k].id) =>
                   \E m \in 1..Len(combined) :
                      /\ <<combined[m].id>> = SourceList(n)[k].id
                      /\ Includes(combined[m].sources, SourceNames[n])

\* the followed list starts with an entry of empty id and one of missing
\* id, entries with ids follow them in that list and in a later one, and
\* the merge has returned
C21_Witness ==
    /\ source = 4
    /\ Len(followedArtists) = 3
    /\ {followedArtists[1].id, followedArtists[2].id} = {<<>>, <<"">>}
    /\ followedArtists[3].id = <<"a">>
    /\ OccursIn(2, "b") \/ OccursIn(3, "b")
    /\ Len(combined) = 2

(***************************************************************************)
(* C22: the list filterReleases returns holds no two releases with the     *)
(* same id: of the releases of the input that share an id only one is in   *)
(* the output.                                                             *)
(***************************************************************************)
C22_NoTwoReleasesWithOneId ==
    stage = 3 =>
        \A x \in 1..Len(filtered), y \in 1..Len(filtered) :
            filtered[x].id = filtered[y].id => x = y

\* the release's date is within the window of daysBack days: its instant,
\* midnight of the first day the date may stand for, is not earlier than
\* now - daysBack * 86400 s; a date that is missing or cannot be read is not
WithinWindow(album, daysBack) ==
    /\ ~FalsyDateString(album.release_date)
    /\ ~Unreadable(album.release_date)
    /\ \/ DayOfDate(DateNumbers(album.release_date)) > now.day - daysBack
       \/ /\ DayOfDate(DateNumbers(album.release_date)) = now.day - daysBack
          /\ now.ms = 0

(***************************************************************************)
(* C23: every release filterReleases returns is a release of its input     *)
(* that isAlbumOrEP classifies as an album or EP and whose release instant *)
(* is not earlier than the time of the call less the window (10 days when  *)
(* the options name none).                                                 *)
(***************************************************************************)
C23_ReturnsOnlyRecentAlbumsAndEPs ==
    stage = 3 =>
        \A k \in 1..Len(filtered) :
            /\ \E h \in 1..Len(testAlbums) : testAlbums[h] = filtered[k]
            /\ isAlbumOrEP(filtered[k])
            /\ WithinWindow(filtered[k], DaysBack(filterOptions))

\* a release is returned and one that is of the window but a plain single
\* is not
C23_Witness ==
    /\ stage = 3
    /\ Len(filtered) = 1
    /\ \E h \in 1..Len(testAlbums) :
           /\ ~isAlbumOrEP(testAlbums[h])
           /\ WithinWindow(testAlbums[h], DaysBack(filterOptions))

\* the instant a release date stands for is earlier than another's: the
\* earliest day each date may stand for is compared
EarlierDate(a, b) ==
    DayOfDate(DateNumbers(a.release_date)) < DayOfDate(DateNumbers(b.release_date))

Dated(album) ==
    ~FalsyDateString(album.release_date) /\ ~Unreadable(album.release_date)

(***************************************************************************)
(* C24: sorting with sortByReleaseDate puts of two releases with a valid   *)
(* date the one with the later instant first, a date without day or month  *)
(* counting as its earliest day ("2025-08" comes after "2025-08-15"), and  *)
(* the list filterReleases returns is non-increasing in that instant.      *)
(***************************************************************************)
C24_NewestFirst ==
    /\ stage >= 2 /\ (\A k \in 1..Len(testAlbums) : Dated(testAlbums[k])) =>
          \A x \in 1..Len(sorted), y \in 1..Len(sorted) :
              x < y => ~EarlierDate(sorted[x], sorted[y])
    /\ stage = 3 =>
          \A x \in 1..Len(filtered), y \in 1..Len(filtered) :
              x < y => ~EarlierDate(filtered[x], filtered[y])

\* the month-only release was given before the one of the 15th, and both the
\* sort and the filter put it after
C24_Witness ==
    /\ stage = 3
    /\ Ids(testAlbums) = <<"m08", "d15">>
    /\ Ids(sorted) = <<"d15", "m08">>
    /\ Ids(filtered) = <<"d15", "m08">>

(***************************************************************************)
(* C25: in a list sorted with sortByReleaseDate no release whose date is   *)
(* missing or cannot be read stands before a release with a valid date.    *)
(***************************************************************************)
C25_UndatedSortLast ==
    stage >= 2 =>
        \A x \in 1..Len(sorted), y \in 1..Len(sorted) :
            x < y => ~(~Dated(sorted[x]) /\ Dated(sorted[y]))

\* the name holds an "e" followed by a "p", in either case
NamesAnEP(name) ==
    \E k \in 1..(Len(name) - 1) :
        name[k] \in {"e", "E"} /\ name[k + 1] \in {"p", "P"}

\* the album the list holds under the id
Included(id) ==
    \A k \in 1..Len(testAlbums) :
        testAlbums[k].id = id => verdicts[k].albumOrEP

Excluded(id) ==
    \A k \in 1..Len(testAlbums) :
        testAlbums[k].id = id => ~verdicts[k].albumOrEP

C27_SingleWithoutTracksExcluded ==
    stage >= 1 =>
        \A k \in 1..Len(testAlbums) :
            testAlbums[k].album_type = "single" /\ testAlbums[k].total_tracks = 0
               => ~verdicts[k].albumOrEP

(***************************************************************************)
(* C27, as the code has it: isAlbumOrEP answers false for a release of     *)
(* type single with 0 tracks exactly when its name does not contain "ep"   *)
(* in any case; a single of 0 tracks named "Deep" is included.             *)
(***************************************************************************)
C27_SingleWithoutTracksExcludedUnlessNamedEP ==
    stage >= 1 =>
        \A k \in 1..Len(testAlbums) :
            testAlbums[k].album_type = "single" /\ testAlbums[k].total_tracks = 0
               => (verdicts[k].albumOrEP <=> NamesAnEP(testAlbums[k].name))

\* a single "Foo" of 0 tracks was excluded and a single "Deep" of 0 tracks
\* included
C27_Witness ==
    /\ stage >= 1
    /\ Len(testAlbums) = 2
    /\ \A k \in 1..2 : /\ testAlbums[k].album_type = "single"
                       /\ testAlbums[k].total_tracks = 0
    /\ testAlbums[1].name = NameFoo /\ ~verdicts[1].albumOrEP
    /\ testAlbums[2].name = NameDeep /\ verdicts[2].albumOrEP

\* the components the partial date has are those of the full date
Agrees(partial, full) ==
    /\ Len(DateNumbers(partial.release_date)) < 3
    /\ Len(DateNumbers(full.release_date)) = 3
    /\ \A c \in 1..Len(DateNumbers(partial.release_date)) :
           DateNumbers(partial.release_date)[c] = DateNumbers(full.release_date)[c]

(***************************************************************************)
(* C28: parseReleaseDate reads a date of year, month and day as midnight   *)
(* of that day, a date without day as the 1st of its month and a date      *)
(* without month as 1 January of its year; so the instant of a partial     *)
(* date is never later than that of a full date with the same year (and    *)
(* month).                                                                 *)
(***************************************************************************)
C28_MissingComponentsAreEarliest ==
    stage >= 1 =>
        /\ \A k \in 1..Len(testAlbums) :
              Dated(testAlbums[k]) =>
                 verdicts[k].releaseDate =
                    [kind |-> "date",
                     day  |-> DayOfDate(DateNumbers(testAlbums[k].release_date)),
                     ms   |-> 0]
        /\ \A k \in 1..Len(testAlbums), h \in 1..Len(testAlbums) :
              Dated(testAlbums[k]) /\ Dated(testAlbums[h])
                 /\ Agrees(testAlbums[k], testAlbums[h])
                 => ~InstantLess(verdicts[h].releaseDate, verdicts[k].releaseDate)

\* a date of the year only and a full date of that year were parsed: the
\* first is 1 January, 222 days before 11 August
C28_Witness ==
    /\ stage >= 1
    /\ Ids(testAlbums) = <<"y25", "d11">>
    /\ Agrees(testAlbums[1], testAlbums[2])
    /\ verdicts[1].releaseDate.kind = "date"
    /\ verdicts[2].releaseDate.day - verdicts[1].releaseDate.day = 222

\* the date string is empty or does not begin with a digit
NotADate(album) ==
    /\ album.release_date # <<>>
    /\ \/ album.release_date[1] = <<>>
       \/ ~IsDigit(album.release_date[1][1])

(***************************************************************************)
(* C29: parseReleaseDate gives no date (null or an Invalid Date) for the   *)
(* empty string and for a string that does not begin with a digit; the     *)
(* release is then not recent for isRecentRelease, is left out of what     *)
(* filterReleases returns, and the other releases of the list that are     *)
(* recent albums or EPs are returned all the same.                         *)
(***************************************************************************)
C29_UnreadableDateIsDropped ==
    /\ stage >= 1 =>
          \A k \in 1..Len(testAlbums) :
              NotADate(testAlbums[k]) =>
                 /\ verdicts[k].releaseDate.kind # "date"
                 /\ ~verdicts[k].recent
    /\ stage = 3 =>
          \A k \in 1..Len(testAlbums) :
              IF NotADate(testAlbums[k])
              THEN \A h \in 1..Len(filtered) : filtered[h] # testAlbums[k]
              ELSE /\ isAlbumOrEP(testAlbums[k])
                   /\ WithinWindow(testAlbums[k], DaysBack(filterOptions))
                   => \E h \in 1..Len(filtered) : filtered[h] = testAlbums[k]

\* a release dated "abc" was given before one of the day: only the second
\* was returned
C29_Witness ==
    /\ stage = 3
    /\ Ids(testAlbums) = <<"abc", "d22">>
    /\ NotADate(testAlbums[1])
    /\ verdicts[1].releaseDate.kind = "invalid"
    /\ Ids(filtered) = <<"d22">>

(***************************************************************************)
(* C30: with the window of 10 days isOlderThanDays answers false for a     *)
(* release dated the day 10 calendar days before the day of the call and   *)
(* true for one dated 11 calendar days before it, at whatever time of the  *)
(* day the call is made.                                                   *)
(***************************************************************************)
C30_TenthDayIsRecent ==
    stage >= 1 =>
        \A k \in 1..Len(testAlbums) :
            Dated(testAlbums[k]) /\ Len(DateNumbers(testAlbums[k].release_date)) = 3
               => /\ DayOfDate(DateNumbers(testAlbums[k].release_date))
                        = now.day - windowDays
                     => ~verdicts[k].older
                  /\ DayOfDate(DateNumbers(testAlbums[k].release_date))
                        = now.day - windowDays - 1
                     => verdicts[k].older

\* the call ended because a page request was answered with an error
PageRequestFailed ==
    xpc = "done" /\ extracted.error \in {PageError(status) : status \in PageStatuses}

\* the artists the items of the library name
SavedArtists ==
    UNION {{library[k][a] : a \in 1..Len(library[k])} : k \in 1..Len(library)}

(***************************************************************************)
(* C31: a call of LikedArtists.extractAll none of whose page requests      *)
(* fails requests the pages of the saved tracks one after the other, each  *)
(* at the offset the pages before it reached, and returns a list that      *)
(* holds the artists of every saved track, for a library of one page and   *)
(* for one of more than 50 tracks alike.                                   *)
(***************************************************************************)
C31_LikedArtistsOfEveryPage ==
    extractor = "liked" /\ xpc = "done" /\ ~PageRequestFailed =>
        /\ extracted.type = "returned"
        /\ \A id \in SavedArtists :
               \E k \in 1..Len(extracted.artists) : extracted.artists[k] = id

\* max(1, ceil(total / limit))
MostPages(total) ==
    IF total = 0 THEN 1 ELSE (total + limit - 1) \div limit

(***************************************************************************)
(* C32: a call of the paginated scan issues at most max(1, ceil(total/20)) *)
(* page requests, total being the length of the discography the first     *)
(* response declares, whatever the answers are (errors included); a scan   *)
(* all of whose pages are answered and that meets no old release issues    *)
(* exactly that many and then returns: it ends at the page that is shorter *)
(* than 20 or at the offset that reaches the total.                        *)
(***************************************************************************)
C32_ScanIssuesBoundedRequests ==
    \A f \in 1..Len(fetches) :
        LET a == fetches[f].artist
            total == Len(catalog[a])
        IN  /\ Len(ScanRequestsOf(f)) <= MostPages(total)
            /\ (CleanScan(f) /\ FirstOld(a) > total)
                  => Len(ScanRequestsOf(f)) = MostPages(total)
            /\ (Len(ScanRequestsOf(f)) = MostPages(total)
                  /\ Len(PagesOf(f)) = MostPages(total)) => Ended(f)

\* a discography of 40 releases, all recent, was read in 2 requests: the
\* offset reached the total
C32_Witness ==
    \E f \in 1..Len(fetches) :
        /\ CleanScan(f)
        /\ Len(catalog[fetches[f].artist]) = 2 * limit
        /\ FirstOld(fetches[f].artist) > 2 * limit
        /\ Len(ScanRequestsOf(f)) = 2
        /\ Len(fetches[f].albums) = 2 * limit

(***************************************************************************)
(* C33: once the user has interrupted the run no request is issued any     *)
(* more, and the run does not end before the request that was in flight    *)
(* at the interrupt has been answered.                                     *)
(***************************************************************************)
C33_InterruptLetsRequestComplete ==
    /\ [](pc = "exited" => request = NoRequest)
    /\ [][pc = "exited" => Issued' = Issued]_vars

\* the discography is in non-increasing date: no release stands before one
\* of a later day, the releases without date coming last
Descending(all) ==
    \A x \in 1..(Len(all) - 1) :
        all[x + 1].release_date # <<>> =>
           /\ all[x].release_date # <<>>
           /\ DayOfDate(all[x].release_date)
                 >= DayOfDate(all[x + 1].release_date)

(***************************************************************************)
(* C34: when the service lists the releases of an artist in non-increasing *)
(* date, a paginated scan all of whose pages are answered returns every    *)
(* release of the artist that is within the 10-day window.                 *)
(***************************************************************************)
C34_ScanKeepsEveryRecentRelease ==
    \A f \in 1..Len(fetches) :
        LET a == fetches[f].artist
        IN  CleanScan(f) /\ Descending(catalog[a]) =>
               \A k \in 1..Len(catalog[a]) :
                   ~OutsideWindow(catalog[a][k].release_date) =>
                      \E h \in 1..Len(fetches[f].albums) :
                          fetches[f].albums[h].id = catalog[a][k].id

\* the first 41 of 60 releases are recent: the scan went on to the third
\* page and returned them
C34_Witness ==
    \E f \in 1..Len(fetches) :
        /\ CleanScan(f)
        /\ Descending(catalog[fetches[f].artist])
        /\ Len(catalog[fetches[f].artist]) = 3 * limit
        /\ FirstOld(fetches[f].artist) = 2 * limit + 2
        /\ Len(ScanRequestsOf(f)) = 3

\* the windows the filter may be given: the default and a longer one
Windows == {windowDays, 3 * windowDays}

\* the release is dated within the last days days of the time of the run
WithinDays(date, days) ==
    /\ date # <<>>
    /\ \/ DayOfDate(date) > now.day - days
       \/ DayOfDate(date) = now.day - days /\ now.ms = 0

(***************************************************************************)
(* C35: whatever the window the filter is given (10 days or another), a    *)
(* paginated scan all of whose pages are answered, over a discography in   *)
(* non-increasing date, returns every release of the artist that is dated  *)
(* within that window, so that filterReleases, which returns releases of   *)
(* its input only, finds it in the result of the retrieval.                *)
(***************************************************************************)
C35_ConfiguredWindowHonoured ==
    \A days \in Windows :
        \A f \in 1..Len(fetches) :
            LET a == fetches[f].artist
            IN  CleanScan(f) /\ Descending(catalog[a]) =>
                   \A k \in 1..Len(catalog[a]) :
                       WithinDays(catalog[a][k].release_date, days) =>
                          \E h \in 1..Len(fetches[f].albums) :
                              fetches[f].albums[h].id = catalog[a][k].id

(***************************************************************************)
(* C36: for every release date, empty, missing and unreadable ones         *)
(* included, and every window, isOlderThanDays of the retrieval answers    *)
(* true exactly when isRecentRelease of the filter answers false.          *)
(***************************************************************************)
C36_RecencyTestsAgree ==
    stage >= 1 =>
        \A k \in 1..Len(testAlbums) :
            verdicts[k].olderThan <=> ~verdicts[k].recent

\* a page request of the f-th call failed after a page of it was answered
FailedAfterPages(f) ==
    \E k, m \in 1..Len(PagesOf(f)) :
        /\ k < m
        /\ PagesOf(f)[k].status = 200
        /\ Errored(PagesOf(f)[m])

\* how many times the run returns the release id as one of the artist
TimesReturned(id, artistId) ==
    Cardinality({h \in 1..Len(result.albums) :
                    /\ result.albums[h].id = id
                    /\ result.albums[h].artist_id = artistId})

\* the ids of the releases the service lists for the artist
ReleaseIds(artistId) ==
    {catalog[artistId][k].id : k \in 1..Len(catalog[artistId])}

(***************************************************************************)
(* C37: when the run is over, no release is in the result for an artist    *)
(* whose last attempt failed, on whatever page, and a release of an artist *)
(* whose last attempt succeeded, be it the retry of a rate-limited first   *)
(* attempt that had received pages, is in the result once if that attempt  *)
(* returned it and not at all otherwise.                                   *)
(***************************************************************************)
C37_AttemptIsAllOrNothing ==
    pc = "done" =>
       \A p \in 1..Len(artists) :
           LET a == artists[p]
               f == LastCall(a)
           IN  /\ fetches[f].outcome = "threw" =>
                     \A h \in 1..Len(result.albums) :
                         result.albums[h].artist_id # a
               /\ FailedAfterPages(f) =>
                     \A h \in 1..Len(result.albums) :
                         result.albums[h].artist_id # a
               /\ fetches[f].outcome = "returned" =>
                     \A id \in ReleaseIds(a) :
                         TimesReturned(id, a) =
                            IF \E h \in 1..Len(fetches[f].albums) :
                                   fetches[f].albums[h].id = id
                            THEN 1 ELSE 0

\* the first attempt received the first page and was rate limited on the
\* second; the retry received all the pages and the run returned them
C37_Witness ==
    /\ pc = "done"
    /\ Len(fetches) = 2
    /\ FailedAfterPages(1)
    /\ RateLimited(1)
    /\ CleanScan(2)
    /\ Len(PagesOf(2)) >= 2
    /\ Len(result.albums) > limit

\* the artists named by the items of the pages that were answered before
\* the last page request
ReceivedArtists ==
    UNION {{library[k][a] : a \in 1..Len(library[k])} :
              k \in 1..pageCalls[Len(pageCalls)]}

(***************************************************************************)
(* C38: when a page request of FollowedArtists.fetchAll, of                *)
(* LikedArtists.extractAll or of SavedAlbumsArtists.extractAll fails, the  *)
(* call returns the artists of the pages received before if there is one,  *)
(* and fails with the error of the request if there is none.               *)
(***************************************************************************)
C38_PartialArtistsOnFailure ==
    PageRequestFailed =>
        IF ReceivedArtists # {}
        THEN /\ extracted.type = "returned"
             /\ {extracted.artists[k] : k \in 1..Len(extracted.artists)}
                   = ReceivedArtists
        ELSE /\ extracted.type = "threw"
             /\ extracted.artists = <<>>

\* the request of the third page failed: the artists of the first two pages
\* were returned
C38_Witness ==
    /\ PageRequestFailed
    /\ Len(pageCalls) = 3
    /\ extracted.type = "returned"
    /\ Cardinality(ReceivedArtists) >= 2

\* the playlists of the user that have the name of the day's playlist
TodayPlaylists ==
    {k \in 1..Len(userPlaylists) :
        userPlaylists[k].name = createPlaylistName(getTodayDate)}

(***************************************************************************)
(* C39: whatever calls of createOrUpdateTodayPlaylist were made on the day *)
(* and whatever the number and the order of the other playlists of the     *)
(* user, the user has at most one playlist named "<today> Releases".       *)
(***************************************************************************)
C39_AtMostOneTodayPlaylist ==
    ppc # "unused" => Cardinality(TodayPlaylists) <= 1

====
